---- MODULE Spec2Model ----
(***************************************************************************)
(* Insider-trading research pipeline: the detection run of scraper.py      *)
(* (scrape, whale detection, cluster filters, cluster detection, save),    *)
(* and the research run of asistente.py (load, enrich, analyze, report).   *)
(*                                                                         *)
(* Units.  transaction_value is in whole dollars.  A filing's price is in  *)
(* mills (1/1000 dollar), so that prices finer than a cent exist; a price  *)
(* that the code rounds to two decimals (round(x, 2)) is in cents.         *)
(* Floating point is modelled by exact rational arithmetic.                *)
(***************************************************************************)
EXTENDS Integers, Sequences, FiniteSets, TLC

VARIABLES
    pc,                    \* position of scraper.main
    rows_seen,             \* table rows consumed by the scrape loop
    df,                    \* cleaned filings (the DataFrame of the run)
    whale_opportunities,   \* result of detect_whale_trades
    df_filtered,           \* result of apply_intelligent_filters
    clusters,              \* result of detect_cluster_buying
    cluster_opportunities, \* result of save_opportunities
    whale_csv,             \* data/whale_opportunities.csv
    filtered_csv,          \* data/insider_opportunities.csv
    score_args,            \* arguments of a direct call of a score computation
    score_result,          \* what that call returned
    apc,                   \* position of asistente.main
    cluster_data,          \* clusters loaded by load_opportunities
    whale_data,            \* whales loaded by load_opportunities
    market_data,           \* result of enrich_with_market_data
    all_enriched,          \* result of analyze_opportunities
    report,                \* result of generate_research_report
    is_scraping,           \* insider_app.is_scraping
    request,               \* response of each POST /api/run-pipeline
    thread,                \* position of each run_async thread
    status                 \* last answer of get_system_status

score_vars == <<score_args, score_result>>

research_vars ==
    <<apc, cluster_data, whale_data, market_data, all_enriched, report>>

app_vars == <<is_scraping, request, thread, status>>

vars == <<pc, rows_seen, df, whale_opportunities, df_filtered, clusters,
          cluster_opportunities, whale_csv, filtered_csv, score_vars,
          research_vars, app_vars>>

(***************************************************************************)
(* Bounds of the model.                                                    *)
(***************************************************************************)
\* table rows a scrape reads
MaxRows == 2

\* purchases handed to a direct call of _calculate_cluster_score
MaxMembers == 2

(***************************************************************************)
(* Configuration (IntelligentInsiderScraper.__init__).                     *)
(***************************************************************************)
min_purchase_value == 500000
whale_threshold == 99000000

relevant_insiders ==
    <<"ceo", "chief executive", "founder", "co-founder", "cfo",
      "chief financial", "president", "chairman", "chair", "10%">>

\* mutant: the allowlist also admits directors, a title of no high rule
whale_insiders_WithDirector ==
    <<"ceo", "chief executive", "founder", "co-founder", "10%", "dir">>

whale_insiders == <<"ceo", "chief executive", "founder", "co-founder", "10%">>

(***************************************************************************)
(* Generic helpers: Python built-ins used by the code.                     *)
(***************************************************************************)
Abs(x) == IF x < 0 THEN -x ELSE x

Min2(a, b) == IF a <= b THEN a ELSE b

Max2(a, b) == IF a >= b THEN a ELSE b

Range(s) == {s[i] : i \in 1..Len(s)}

UpperAlphabet == "ABCDEFGHIJKLMNOPQRSTUVWXYZ"

LowerAlphabet == "abcdefghijklmnopqrstuvwxyz"

\* str.lower() of one character
LowerChar(c) ==
    IF \E i \in 1..26 : SubSeq(UpperAlphabet, i, i) = c
    THEN LET i == CHOOSE j \in 1..26 : SubSeq(UpperAlphabet, j, j) = c
         IN  SubSeq(LowerAlphabet, i, i)
    ELSE c

RECURSIVE LowerOf(_)
\* str.lower(), character by character
LowerOf(s) ==
    IF Len(s) = 0 THEN ""
    ELSE LowerChar(SubSeq(s, 1, 1)) \o LowerOf(SubSeq(s, 2, Len(s)))

\* the titles the model's rows carry
Titles ==
    {"CEO", "CFO", "Dir", "Chair", "10%", "President", "Founder, CFO",
     "Chief Executive Officer", "COO"}

\* str.lower() of the model's titles, computed once
LowerOfTitle == [t \in Titles |-> LowerOf(t)]

\* str.lower()
Lower(s) == IF s \in Titles THEN LowerOfTitle[s] ELSE LowerOf(s)

\* `word in text`
Contains(text, word) ==
    \E i \in 1..(Len(text) - Len(word) + 1) :
        SubSeq(text, i, i + Len(word) - 1) = word

\* any(word in text for word in words); also str.contains('|'.join(words))
ContainsAny(text, words) ==
    \E k \in 1..Len(words) : Contains(text, words[k])

\* round(n / d) for d > 0: nearest integer, an exact tie to the even one
RoundDiv(n, d) ==
    LET q == n \div d
        r == n % d
    IN  IF 2 * r < d THEN q
        ELSE IF 2 * r > d THEN q + 1
        ELSE IF q % 2 = 0 THEN q ELSE q + 1

\* round(price, 2): mills to cents
Round2(mills) == RoundDiv(mills, 10)

RECURSIVE SumSeq(_)
\* sum(...) of a list of numbers
SumSeq(s) == IF Len(s) = 0 THEN 0 ELSE s[1] + SumSeq(Tail(s))

RECURSIVE MinSeq(_)
\* min(...) of a non-empty list of numbers
MinSeq(s) == IF Len(s) = 1 THEN s[1] ELSE Min2(s[1], MinSeq(Tail(s)))

RECURSIVE MaxSeq(_)
\* max(...) of a non-empty list of numbers
MaxSeq(s) == IF Len(s) = 1 THEN s[1] ELSE Max2(s[1], MaxSeq(Tail(s)))

(***************************************************************************)
(* The table rows a scrape may meet.  A row is the cleaned row_data of the *)
(* scrape loop; trade_date is a date text and days_since_trade is derived  *)
(* from it.  The run's "now" is 2026-11-02.                                *)
(***************************************************************************)
\* _calculate_days_since: (now - trade_date).days, 999 for an unparseable date
calculate_days_since(trade_date_str) ==
    CASE trade_date_str = "2026-10-30" -> 3
      [] trade_date_str = "2026-10-26" -> 7
      [] trade_date_str = "2026-10-25" -> 8
      [] trade_date_str = "2026-10-12" -> 21
      [] trade_date_str = "2026-10-11" -> 22
      [] trade_date_str = "2026-09-01" -> 62
      [] OTHER -> 999

Row(ticker, insider, title, type, price, qty, value, date) ==
    [ticker |-> ticker, insider_name |-> insider, title |-> title,
     transaction_type |-> type, price |-> price, qty |-> qty,
     transaction_value |-> value, trade_date |-> date,
     days_since_trade |-> calculate_days_since(date)]

\* Rows that probe the detectors' admission conditions.
EligibilityRows ==
    {Row(t, "Ann Lee", ti, ty, p, 1000, v, "2026-10-30") :
        t \in {"AB", "ABCDEF"},
        ti \in {"CEO", "CFO", "Dir"},
        ty \in {"P - Purchase", "S - Sale"},
        p \in {0, 1250},
        v \in {0, 499999, 500000, 98999999, 99000000, -99000000}}

\* Purchases in the cluster value range: two tickers, two insiders, prices
\* of whole cents (120, 250 mills) and finer than a cent (4 mills).
ClusterRows ==
    {Row(t, who[1], who[2], "P - Purchase", p, 1000, v, d) :
        t \in {"AB", "CD"},
        who \in {<<"Ann Lee", "CEO">>, <<"Bo Kim", "Chair">>},
        p \in {4, 120, 250},
        v \in {500000, 2000000},
        d \in {"2026-10-30", "2026-09-01"}}

(***************************************************************************)
(* scrape_recent_insider_data                                              *)
(***************************************************************************)
\* the validity test that closes the scrape loop's body
ValidRow(row_data) ==
    /\ row_data.ticker # ""
    /\ row_data.transaction_value # 0
    /\ row_data.qty # 0
    /\ row_data.price > 0

\* one iteration of `for row in rows`, of a table of at most n rows
ScrapeRowUpTo(Rows, n) ==
    /\ pc = "scrape"
    /\ rows_seen < n
    /\ \E row_data \in Rows :
          df' = IF ValidRow(row_data) THEN Append(df, row_data) ELSE df
    /\ rows_seen' = rows_seen + 1
    /\ UNCHANGED <<pc, whale_opportunities, df_filtered, clusters,
                   cluster_opportunities, whale_csv, filtered_csv,
                   score_vars, research_vars, app_vars>>

ScrapeRow(Rows) == ScrapeRowUpTo(Rows, MaxRows)

\* the loop ends: the DataFrame is returned to main
ScrapeDone ==
    /\ pc = "scrape"
    /\ pc' = "detect_whale_trades"
    /\ UNCHANGED <<rows_seen, df, whale_opportunities, df_filtered, clusters,
                   cluster_opportunities, whale_csv, filtered_csv,
                   score_vars, research_vars, app_vars>>

\* the download or the parse raises: None is returned and main exits with 1
ScrapeFail ==
    /\ pc = "scrape"
    /\ pc' = "exit_1"
    /\ UNCHANGED <<rows_seen, df, whale_opportunities, df_filtered, clusters,
                   cluster_opportunities, whale_csv, filtered_csv,
                   score_vars, research_vars, app_vars>>

(***************************************************************************)
(* detect_whale_trades                                                     *)
(***************************************************************************)
\* mutant: the threshold compared with > instead of >=
IsWhaleRow_StrictThreshold(row) ==
    /\ Abs(row.transaction_value) > whale_threshold
    /\ Contains(row.transaction_type, "P - Purchase")
    /\ ContainsAny(Lower(row.title), whale_insiders)
    /\ Len(row.ticker) >= 1 /\ Len(row.ticker) <= 5
    /\ row.price > 0

\* mutant: the purchase test left out of the mask
IsWhaleRow_AnyType(row) ==
    /\ Abs(row.transaction_value) >= whale_threshold
    /\ ContainsAny(Lower(row.title), whale_insiders)
    /\ Len(row.ticker) >= 1 /\ Len(row.ticker) <= 5
    /\ row.price > 0

\* the boolean mask that selects whale_df
IsWhaleRow(row) ==
    /\ Abs(row.transaction_value) >= whale_threshold
    /\ Contains(row.transaction_type, "P - Purchase")
    /\ ContainsAny(Lower(row.title), whale_insiders)
    /\ Len(row.ticker) >= 1 /\ Len(row.ticker) <= 5
    /\ row.price > 0

WhaleFreshness(days) ==
    IF days <= 7 THEN "fresh" ELSE IF days <= 21 THEN "recent" ELSE "old"

\* mutant: the fresh tier ends below 7 days instead of at 7
WhaleFreshnessScore_Exclusive(days) ==
    IF days < 7 THEN 30 ELSE IF days <= 21 THEN 20 ELSE 10

WhaleFreshnessScore(days) ==
    IF days <= 7 THEN 30 ELSE IF days <= 21 THEN 20 ELSE 10

WhaleConfidence(title) ==
    IF ContainsAny(title, <<"ceo", "chief executive", "founder", "co-founder">>)
    THEN "high"
    ELSE IF Contains(title, "10%") THEN "high" ELSE "medium"

WhaleConfidenceScore(title) ==
    IF ContainsAny(title, <<"ceo", "chief executive", "founder", "co-founder">>)
    THEN 30
    ELSE IF Contains(title, "10%") THEN 25 ELSE 15

\* whale_score = min(40 + freshness_score + confidence_score, 100)
WhaleScore(days, title) ==
    Min2(40 + WhaleFreshnessScore(days) + WhaleConfidenceScore(title), 100)

\* the whale_opp record built for one row of whale_df
WhaleOpp(row) ==
    [type |-> "whale",
     ticker |-> row.ticker,
     insider_name |-> row.insider_name,
     title |-> row.title,
     purchase_value_usd |-> Abs(row.transaction_value),
     purchase_price |-> Round2(row.price),
     purchase_date |-> row.trade_date,
     days_since_trade |-> row.days_since_trade,
     freshness |-> WhaleFreshness(row.days_since_trade),
     confidence |-> WhaleConfidence(Lower(row.title)),
     whale_score |-> WhaleScore(row.days_since_trade, Lower(row.title)),
     qty_purchased |-> IF row.qty > 0 THEN row.qty ELSE 0]

RECURSIVE InsertByWhaleScore_BeforeTies(_, _)
\* mutant: a record is placed before the records of equal whale_score
InsertByWhaleScore_BeforeTies(x, s) ==
    IF Len(s) = 0 THEN <<x>>
    ELSE IF s[1].whale_score > x.whale_score
         THEN <<s[1]>> \o InsertByWhaleScore_BeforeTies(x, Tail(s))
         ELSE <<x>> \o s

RECURSIVE InsertByWhaleScore(_, _)
InsertByWhaleScore(x, s) ==
    IF Len(s) = 0 THEN <<x>>
    ELSE IF s[1].whale_score >= x.whale_score
         THEN <<s[1]>> \o InsertByWhaleScore(x, Tail(s))
         ELSE <<x>> \o s

RECURSIVE SortByWhaleScore(_)
\* whale_opportunities.sort(key=whale_score, reverse=True): stable
SortByWhaleScore(s) ==
    IF Len(s) = 0 THEN <<>>
    ELSE InsertByWhaleScore(s[Len(s)],
                            SortByWhaleScore(SubSeq(s, 1, Len(s) - 1)))

RECURSIVE WhaleOppsOf(_)
\* the loop over whale_df
WhaleOppsOf(rows) ==
    IF Len(rows) = 0 THEN <<>>
    ELSE <<WhaleOpp(rows[1])>> \o WhaleOppsOf(Tail(rows))

DetectWhaleTradesResult(frame) ==
    SortByWhaleScore(WhaleOppsOf(SelectSeq(frame, IsWhaleRow)))

DetectWhaleTrades ==
    /\ pc = "detect_whale_trades"
    /\ Len(df) > 0
    /\ whale_opportunities' = DetectWhaleTradesResult(df)
    /\ whale_csv' = IF Len(whale_opportunities') > 0
                    THEN [exists |-> TRUE, records |-> whale_opportunities']
                    ELSE whale_csv
    /\ pc' = "apply_intelligent_filters"
    /\ UNCHANGED <<rows_seen, df, df_filtered, clusters,
                   cluster_opportunities, filtered_csv,
                   score_vars, research_vars, app_vars>>

\* an empty DataFrame has no columns: df['transaction_value'] raises KeyError,
\* which nothing catches
DetectWhaleTradesKeyError ==
    /\ pc = "detect_whale_trades"
    /\ Len(df) = 0
    /\ pc' = "KeyError"
    /\ UNCHANGED <<rows_seen, df, whale_opportunities, df_filtered, clusters,
                   cluster_opportunities, whale_csv, filtered_csv,
                   score_vars, research_vars, app_vars>>

(***************************************************************************)
(* apply_intelligent_filters                                               *)
(***************************************************************************)
\* filter 1: only purchases
IsPurchase(row) == Contains(row.transaction_type, "P - Purchase")

\* mutant: the upper bound of the value range left out
InClusterValueRange_NoUpperBound(row) ==
    Abs(row.transaction_value) >= min_purchase_value

\* filter 2: min_value <= abs(value) < max_value, max_value = whale_threshold - 1
InClusterValueRange(row) ==
    LET min_value == min_purchase_value
        max_value == whale_threshold - 1
    IN  /\ Abs(row.transaction_value) >= min_value
        /\ Abs(row.transaction_value) < max_value

\* filter 3: only relevant insiders
IsRelevantInsider(row) == ContainsAny(Lower(row.title), relevant_insiders)

\* filter 4: valid tickers
HasValidTicker(row) == Len(row.ticker) >= 1 /\ Len(row.ticker) <= 5

\* filter 5: valid price
HasValidPrice(row) == row.price > 0

\* the subset of columns drop_duplicates compares
DuplicateKey(row) ==
    <<row.ticker, row.insider_name, row.trade_date, row.transaction_value>>

RECURSIVE DropDuplicates(_)
\* filter 6: drop_duplicates keeps the first row of each key
DropDuplicates(rows) ==
    IF Len(rows) = 0 THEN <<>>
    ELSE LET init == SubSeq(rows, 1, Len(rows) - 1)
             last == rows[Len(rows)]
         IN  IF \E i \in 1..Len(init) : DuplicateKey(init[i]) = DuplicateKey(last)
             THEN DropDuplicates(init)
             ELSE Append(DropDuplicates(init), last)

\* filters 1 to 5, in the code's order
PassesFilters(row) ==
    /\ IsPurchase(row)
    /\ InClusterValueRange(row)
    /\ IsRelevantInsider(row)
    /\ HasValidTicker(row)
    /\ HasValidPrice(row)

ApplyIntelligentFiltersResult(frame) ==
    DropDuplicates(SelectSeq(frame, PassesFilters))

ApplyIntelligentFilters ==
    /\ pc = "apply_intelligent_filters"
    /\ df_filtered' = ApplyIntelligentFiltersResult(df)
    /\ pc' = "detect_cluster_buying"
    /\ UNCHANGED <<rows_seen, df, whale_opportunities, clusters,
                   cluster_opportunities, whale_csv, filtered_csv,
                   score_vars, research_vars, app_vars>>

(***************************************************************************)
(* _calculate_cluster_score                                                *)
(***************************************************************************)
\* 1. total value
ValueScore(total_value) ==
    IF total_value >= 5000000 THEN 25
    ELSE IF total_value >= 2000000 THEN 20
    ELSE IF total_value >= 1000000 THEN 15
    ELSE IF total_value >= 500000 THEN 10
    ELSE 0

\* mutant: two insiders already earn the top cluster effect
ClusterEffectScore_TwoIsTop(insider_count) ==
    IF insider_count >= 2 THEN 25 ELSE 10

\* 2. cluster effect
ClusterEffectScore(insider_count) ==
    IF insider_count >= 3 THEN 25
    ELSE IF insider_count >= 2 THEN 20
    ELSE 10

\* 3. insider quality of one purchase: the if/elif chain, in the code's order
TitleScore(title) ==
    IF ContainsAny(title, <<"ceo", "chief executive">>) THEN 25
    ELSE IF ContainsAny(title, <<"cfo", "chief financial">>) THEN 20
    ELSE IF ContainsAny(title, <<"founder", "co-founder">>) THEN 25
    ELSE IF Contains(title, "10%") THEN 20
    ELSE IF ContainsAny(title, <<"president", "chairman">>) THEN 15
    ELSE 8

RECURSIVE MaxInsiderScore(_)
\* 3. max_insider_score over the purchases, starting from 0
MaxInsiderScore(purchases) ==
    IF Len(purchases) = 0 THEN 0
    ELSE Max2(TitleScore(Lower(purchases[Len(purchases)].title)),
              MaxInsiderScore(SubSeq(purchases, 1, Len(purchases) - 1)))

\* mutant: a bonus that decays with the days instead of the stepped table
FreshnessBonus_LinearDecay(days_since) == 25 - days_since

\* 4. freshness bonus
FreshnessBonus(days_since) ==
    IF days_since <= 7 THEN 25
    ELSE IF days_since <= 14 THEN 20
    ELSE IF days_since <= 21 THEN 15
    ELSE IF days_since <= 30 THEN 10
    ELSE 5

calculate_cluster_score(purchases, total_value, insider_count, days_since) ==
    Min2(ValueScore(total_value) + ClusterEffectScore(insider_count)
           + MaxInsiderScore(purchases) + FreshnessBonus(days_since),
         100)

(***************************************************************************)
(* detect_cluster_buying                                                   *)
(***************************************************************************)
\* the purchase entry appended to clusters[ticker]
Purchase(row) ==
    [insider |-> row.insider_name,
     title |-> row.title,
     value |-> Abs(row.transaction_value),
     price |-> row.price,
     date |-> row.trade_date,
     days_since |-> row.days_since_trade,
     qty |-> row.qty]

RECURSIVE PurchasesOf(_, _)
\* clusters[ticker]: the purchases of a ticker, in row order
PurchasesOf(rows, ticker) ==
    IF Len(rows) = 0 THEN <<>>
    ELSE IF rows[1].ticker = ticker
         THEN <<Purchase(rows[1])>> \o PurchasesOf(Tail(rows), ticker)
         ELSE PurchasesOf(Tail(rows), ticker)

RECURSIVE TickersOf(_)
\* the keys of the clusters dict, in insertion order
TickersOf(rows) ==
    IF Len(rows) = 0 THEN <<>>
    ELSE LET init == TickersOf(SubSeq(rows, 1, Len(rows) - 1))
             t == rows[Len(rows)].ticker
         IN  IF t \in Range(init) THEN init ELSE Append(init, t)

\* mutant: the weighted sum divided by the number of purchases
WeightedPriceCents_DividedByCount(purchases) ==
    RoundDiv(SumSeq([i \in 1..Len(purchases) |->
                        purchases[i].price * purchases[i].value]),
             10 * Len(purchases))

\* sum(p['price'] * p['value']) / total_purchase_value, rounded to 2 decimals
WeightedPriceCents(purchases) ==
    RoundDiv(SumSeq([i \in 1..Len(purchases) |->
                        purchases[i].price * purchases[i].value]),
             10 * SumSeq([i \in 1..Len(purchases) |-> purchases[i].value]))

\* mutant: the recent tier left out
ClusterFreshness_NoRecent(days_since_latest) ==
    IF days_since_latest <= 7 THEN "fresh" ELSE "old"

ClusterFreshness(days_since_latest) ==
    IF days_since_latest <= 7 THEN "fresh"
    ELSE IF days_since_latest <= 21 THEN "recent"
    ELSE "old"

\* the record appended to cluster_results for one ticker
ClusterOf(ticker, purchases) ==
    LET total_value == SumSeq([i \in 1..Len(purchases) |-> purchases[i].value])
        insider_count ==
            Cardinality({purchases[i].insider : i \in 1..Len(purchases)})
        days_since_latest ==
            MinSeq([i \in 1..Len(purchases) |-> purchases[i].days_since])
    IN  [type |-> "cluster",
         ticker |-> ticker,
         insider_count |-> insider_count,
         total_value |-> total_value,
         avg_value |-> total_value \div Len(purchases),
         avg_purchase_price |-> WeightedPriceCents(purchases),
         days_since_latest |-> days_since_latest,
         freshness |-> ClusterFreshness(days_since_latest),
         score |-> calculate_cluster_score(purchases, total_value,
                                           insider_count, days_since_latest),
         purchases |-> purchases]

RECURSIVE InsertByScore(_, _)
InsertByScore(x, s) ==
    IF Len(s) = 0 THEN <<x>>
    ELSE IF s[1].score >= x.score
         THEN <<s[1]>> \o InsertByScore(x, Tail(s))
         ELSE <<x>> \o s

RECURSIVE SortByScore(_)
\* cluster_results.sort(key=score, reverse=True): stable
SortByScore(s) ==
    IF Len(s) = 0 THEN <<>>
    ELSE InsertByScore(s[Len(s)], SortByScore(SubSeq(s, 1, Len(s) - 1)))

DetectClusterBuyingResult(frame) ==
    LET tickers == TickersOf(frame)
    IN  SortByScore([k \in 1..Len(tickers) |->
                        ClusterOf(tickers[k], PurchasesOf(frame, tickers[k]))])

DetectClusterBuying ==
    /\ pc = "detect_cluster_buying"
    /\ clusters' = DetectClusterBuyingResult(df_filtered)
    /\ pc' = "save_opportunities"
    /\ UNCHANGED <<rows_seen, df, whale_opportunities, df_filtered,
                   cluster_opportunities, whale_csv, filtered_csv,
                   score_vars, research_vars, app_vars>>

(***************************************************************************)
(* save_opportunities                                                      *)
(***************************************************************************)
\* the opp record built for one accepted cluster
ClusterOpp(cluster) ==
    [type |-> "cluster",
     ticker |-> cluster.ticker,
     score |-> cluster.score,
     insider_count |-> cluster.insider_count,
     total_value_usd |-> cluster.total_value,
     avg_purchase_value |-> cluster.avg_value,
     avg_purchase_price |-> cluster.avg_purchase_price,
     days_since_latest |-> cluster.days_since_latest,
     freshness |-> cluster.freshness]

\* mutant: the floor compared with > instead of >=
AcceptedCluster_Above(cluster) == cluster.score > 50

\* the acceptance floor
AcceptedCluster(cluster) == cluster.score >= 50

SaveOpportunitiesResult(cluster_results) ==
    LET kept == SelectSeq(cluster_results, AcceptedCluster)
    IN  [k \in 1..Len(kept) |-> ClusterOpp(kept[k])]

SaveOpportunities ==
    /\ pc = "save_opportunities"
    /\ cluster_opportunities' = SaveOpportunitiesResult(clusters)
    /\ filtered_csv' = IF Len(cluster_opportunities') > 0
                       THEN [exists |-> TRUE, records |-> cluster_opportunities']
                       ELSE filtered_csv
    /\ pc' = "done"
    /\ UNCHANGED <<rows_seen, df, whale_opportunities, df_filtered, clusters,
                   whale_csv,
                   score_vars, research_vars, app_vars>>

(***************************************************************************)
(* scraper.main: one detection run over the admission-probing rows.        *)
(***************************************************************************)
NoFile == [exists |-> FALSE, records |-> <<>>]

\* no score computation is called directly
NoCall == [kind |-> "none"]

\* asistente.py is not running
ResearchIdle ==
    /\ apc = "idle"
    /\ cluster_data = <<>>
    /\ whale_data = <<>>
    /\ market_data = <<>>
    /\ all_enriched = <<>>
    /\ report = [kind |-> "none"]

\* POST /api/run-pipeline requests the web application receives
MaxRequests == 2

Requests == 1..MaxRequests

\* InsiderTradingApp.__init__: nothing runs, no request has arrived
AppIdle ==
    /\ is_scraping = FALSE
    /\ request = [r \in Requests |-> "pending"]
    /\ thread = [r \in Requests |-> [at |-> "none", outcome |-> "none"]]
    /\ status = [kind |-> "none"]

Init ==
    /\ pc = "scrape"
    /\ rows_seen = 0
    /\ AppIdle
    /\ df = <<>>
    /\ whale_opportunities = <<>>
    /\ df_filtered = <<>>
    /\ clusters = <<>>
    /\ cluster_opportunities = <<>>
    /\ whale_csv = NoFile
    /\ filtered_csv = NoFile
    /\ score_args = NoCall
    /\ score_result = NoCall
    /\ ResearchIdle

Next ==
    \/ ScrapeRow(EligibilityRows)
    \/ ScrapeDone
    \/ ScrapeFail
    \/ DetectWhaleTrades
    \/ DetectWhaleTradesKeyError
    \/ ApplyIntelligentFilters
    \/ DetectClusterBuying
    \/ SaveOpportunities

Spec == Init /\ [][Next]_vars

(***************************************************************************)
(* scraper.main: one detection run over purchases in the cluster range.    *)
(***************************************************************************)
NextCluster ==
    \/ ScrapeRow(ClusterRows)
    \/ ScrapeDone
    \/ ScrapeFail
    \/ DetectWhaleTrades
    \/ DetectWhaleTradesKeyError
    \/ ApplyIntelligentFilters
    \/ DetectClusterBuying
    \/ SaveOpportunities

SpecCluster == Init /\ [][NextCluster]_vars

(***************************************************************************)
(* scraper.main: one detection run over filings of whale size.             *)
(***************************************************************************)
\* purchases of 120,000,000 at 1.25, of every age tier and an unparseable date
WhaleRows ==
    {Row(t, "Ann Lee", title, "P - Purchase", 1250, 1000, 120000000, date) :
        t \in {"AB", "CD"},
        title \in {"CEO", "10%", "Founder, CFO", "Dir"},
        date \in {"2026-10-30", "2026-10-26", "2026-10-25", "2026-10-12",
                  "2026-10-11", "n/a"}}

NextWhale ==
    \/ ScrapeRow(WhaleRows)
    \/ ScrapeDone
    \/ ScrapeFail
    \/ DetectWhaleTrades
    \/ DetectWhaleTradesKeyError
    \/ ApplyIntelligentFilters
    \/ DetectClusterBuying
    \/ SaveOpportunities

SpecWhale == Init /\ [][NextWhale]_vars

(***************************************************************************)
(* scraper.main: one detection run over purchases that group by ticker.    *)
(***************************************************************************)
\* purchases by two insiders in two tickers, of every age tier, one of them
\* reported with a negative value
GroupRows ==
    {Row(t, who, "CEO", "P - Purchase", 120, 1000, v, date) :
        t \in {"AB", "CD"}, who \in {"Ann Lee", "Bo Kim"},
        v \in {500000, -2000000},
        date \in {"2026-10-30", "2026-10-12", "2026-10-11"}}

NextGroup ==
    \/ ScrapeRow(GroupRows)
    \/ ScrapeDone
    \/ ScrapeFail
    \/ DetectWhaleTrades
    \/ DetectWhaleTradesKeyError
    \/ ApplyIntelligentFilters
    \/ DetectClusterBuying
    \/ SaveOpportunities

SpecGroup == Init /\ [][NextGroup]_vars

(***************************************************************************)
(* scraper.main: one detection run over a table mixing whale-size and      *)
(* cluster-size purchases, long enough for two of each.                    *)
(***************************************************************************)
MaxOrderRows == 4

\* 3-day-old purchases of 120,000,000 or 500,000 by a CEO or a 10% owner
OrderRows ==
    {Row(t, "Ann Lee", title, "P - Purchase", 120, 1000, v, "2026-10-30") :
        t \in {"AB", "CD"}, title \in {"CEO", "10%"},
        v \in {120000000, 500000}}

NextOrder ==
    \/ ScrapeRowUpTo(OrderRows, MaxOrderRows)
    \/ ScrapeDone
    \/ ScrapeFail
    \/ DetectWhaleTrades
    \/ DetectWhaleTradesKeyError
    \/ ApplyIntelligentFilters
    \/ DetectClusterBuying
    \/ SaveOpportunities

SpecOrder == Init /\ [][NextOrder]_vars

(***************************************************************************)
(* The two score computations called directly, on any arguments: the       *)
(* arguments need not come from a filing set.                              *)
(***************************************************************************)
RECURSIVE SeqsUpTo(_, _)
\* the sequences over S of length at most n
SeqsUpTo(S, n) ==
    IF n = 0 THEN {<<>>}
    ELSE LET shorter == SeqsUpTo(S, n - 1)
         IN  shorter \cup {Append(q, x) : q \in shorter, x \in S}

ScoreTitles == {"CEO", "CFO", "Founder, CFO", "10%", "President", "Dir"}

ScoreValues ==
    {0, 499999, 500000, 999999, 1000000, 1999999, 2000000, 3700000, 4999999,
     5000000, 300000000}

ScoreCounts == {0, 1, 2, 3, 5}

ScoreDays == {0, 5, 7, 8, 14, 15, 21, 22, 30, 31, 999}

ScoreArgs ==
    {[kind |-> "args", titles |-> ts, total_value |-> v, insider_count |-> n,
      days_since |-> d] :
        ts \in SeqsUpTo(ScoreTitles, MaxMembers), v \in ScoreValues,
        n \in ScoreCounts, d \in ScoreDays}

InitScore ==
    /\ pc = "import"
    /\ rows_seen = 0
    /\ AppIdle
    /\ df = <<>>
    /\ whale_opportunities = <<>>
    /\ df_filtered = <<>>
    /\ clusters = <<>>
    /\ cluster_opportunities = <<>>
    /\ whale_csv = NoFile
    /\ filtered_csv = NoFile
    /\ score_args \in ScoreArgs
    /\ score_result = NoCall
    /\ ResearchIdle

\* self._calculate_cluster_score(purchases, total_value, insider_count, days)
CallClusterScore ==
    /\ score_result = NoCall
    /\ score_args.kind = "args"
    /\ score_result' =
          [kind |-> "cluster",
           value |-> calculate_cluster_score(
                        [i \in 1..Len(score_args.titles) |->
                            [title |-> score_args.titles[i]]],
                        score_args.total_value, score_args.insider_count,
                        score_args.days_since)]
    /\ UNCHANGED <<pc, rows_seen, df, whale_opportunities, df_filtered,
                   clusters, cluster_opportunities, whale_csv, filtered_csv,
                   score_args, research_vars, app_vars>>

\* the whale_score computation of detect_whale_trades for one row
CallWhaleScore ==
    /\ score_result = NoCall
    /\ score_args.kind = "args"
    /\ Len(score_args.titles) > 0
    /\ score_result' =
          [kind |-> "whale",
           value |-> WhaleScore(score_args.days_since,
                                Lower(score_args.titles[1]))]
    /\ UNCHANGED <<pc, rows_seen, df, whale_opportunities, df_filtered,
                   clusters, cluster_opportunities, whale_csv, filtered_csv,
                   score_args, research_vars, app_vars>>

NextScore == CallClusterScore \/ CallWhaleScore

SpecScore == InitScore /\ [][NextScore]_vars

(***************************************************************************)
(* _clean_numeric and _clean_percent called directly on a cell text.  A    *)
(* cleaned value is in ten-thousandths, so that every fraction the texts    *)
(* can spell is exact.                                                     *)
(***************************************************************************)
\* characters of a cell text
MaxCellLen == 3

CellAlphabet == {"$", ",", " ", "+", "-", "%", ".", "1", "5", "x"}

Digits == {"0", "1", "2", "3", "4", "5", "6", "7", "8", "9"}

RECURSIVE TextsUpTo(_)
\* the texts of at most n characters
TextsUpTo(n) ==
    IF n = 0 THEN {""}
    ELSE LET shorter == TextsUpTo(n - 1)
         IN  shorter \cup {t \o c : t \in shorter, c \in CellAlphabet}

\* texts as the site prints them, and the tokens for a missing value
PrintedTexts ==
    {"$1,500.5", "-$1,500", "+$15", "+15%", "-1.5%", "n/a", "N/A", "New",
     "new", " 15 "}

CellTexts == TextsUpTo(MaxCellLen) \cup PrintedTexts

RECURSIVE StripLeft(_)
StripLeft(s) ==
    IF Len(s) > 0 /\ SubSeq(s, 1, 1) = " "
    THEN StripLeft(SubSeq(s, 2, Len(s)))
    ELSE s

RECURSIVE StripRight(_)
StripRight(s) ==
    IF Len(s) > 0 /\ SubSeq(s, Len(s), Len(s)) = " "
    THEN StripRight(SubSeq(s, 1, Len(s) - 1))
    ELSE s

\* _clean_text: the text of the cell, stripped at both ends
clean_text(cell) == StripRight(StripLeft(cell))

RECURSIVE RemoveChars(_, _)
\* re.sub(r'[...]', '', text)
RemoveChars(s, chars) ==
    IF Len(s) = 0 THEN ""
    ELSE (IF SubSeq(s, 1, 1) \in chars THEN "" ELSE SubSeq(s, 1, 1))
            \o RemoveChars(SubSeq(s, 2, Len(s)), chars)

CharsOf(s) == {SubSeq(s, i, i) : i \in 1..Len(s)}

StartsWith(s, c) == Len(s) > 0 /\ SubSeq(s, 1, 1) = c

DigitValue(c) ==
    CASE c = "0" -> 0 [] c = "1" -> 1 [] c = "2" -> 2 [] c = "3" -> 3
      [] c = "4" -> 4 [] c = "5" -> 5 [] c = "6" -> 6 [] c = "7" -> 7
      [] c = "8" -> 8 [] c = "9" -> 9

RECURSIVE DigitsValue(_)
\* the number a digit string spells; 0 for the empty string
DigitsValue(s) ==
    IF Len(s) = 0 THEN 0
    ELSE 10 * DigitsValue(SubSeq(s, 1, Len(s) - 1))
            + DigitValue(SubSeq(s, Len(s), Len(s)))

Pow10(n) == CASE n = 0 -> 1 [] n = 1 -> 10 [] n = 2 -> 100 [] n = 3 -> 1000
              [] OTHER -> 10000

\* digits with at most one point and at least one digit
IsUnsignedNumber(s) ==
    /\ CharsOf(s) \subseteq Digits \cup {"."}
    /\ CharsOf(s) \cap Digits # {}
    /\ Cardinality({i \in 1..Len(s) : SubSeq(s, i, i) = "."}) <= 1

\* the value of an unsigned number, in ten-thousandths
UnsignedValue(s) ==
    IF "." \notin CharsOf(s) THEN 10000 * DigitsValue(s)
    ELSE LET p == CHOOSE i \in 1..Len(s) : SubSeq(s, i, i) = "."
             frac == SubSeq(s, p + 1, Len(s))
         IN  10000 * DigitsValue(SubSeq(s, 1, p - 1))
                + DigitsValue(frac) * Pow10(4 - Len(frac))

\* float(s) on a text of these characters: float accepts a sign of its own
FloatOf(s) ==
    LET signed == StartsWith(s, "-") \/ StartsWith(s, "+")
        body == IF signed THEN SubSeq(s, 2, Len(s)) ELSE s
    IN  IF IsUnsignedNumber(body)
        THEN [kind |-> "float",
              value |-> IF StartsWith(s, "-") THEN 0 - UnsignedValue(body)
                        ELSE UnsignedValue(body)]
        ELSE [kind |-> "ValueError"]

\* the sign handling and the guarded float() shared by the two cleaners
SignedFloatOrZero(clean) ==
    LET is_negative == StartsWith(clean, "-")
        unsigned == IF is_negative \/ StartsWith(clean, "+")
                    THEN SubSeq(clean, 2, Len(clean))
                    ELSE clean
        parsed == FloatOf(unsigned)
    IN  IF parsed.kind = "ValueError" THEN 0
        ELSE IF is_negative THEN 0 - parsed.value ELSE parsed.value

clean_numeric(cell) ==
    LET text == clean_text(cell)
    IN  IF text = "" \/ LowerOf(text) \in {"n/a", "new", ""} THEN 0
        ELSE SignedFloatOrZero(RemoveChars(text, {"$", ",", " "}))

clean_percent(cell) ==
    LET text == clean_text(cell)
    IN  IF text = "" \/ LowerOf(text) \in {"n/a", "new"} THEN 0
        ELSE SignedFloatOrZero(RemoveChars(text, {"%", ",", " "}))

InitClean ==
    /\ pc = "import"
    /\ rows_seen = 0
    /\ AppIdle
    /\ df = <<>>
    /\ whale_opportunities = <<>>
    /\ df_filtered = <<>>
    /\ clusters = <<>>
    /\ cluster_opportunities = <<>>
    /\ whale_csv = NoFile
    /\ filtered_csv = NoFile
    /\ score_args \in {[kind |-> "cell", text |-> t] : t \in CellTexts}
    /\ score_result = NoCall
    /\ ResearchIdle

\* self._clean_numeric(cell)
CallCleanNumeric ==
    /\ score_result = NoCall
    /\ score_args.kind = "cell"
    /\ score_result' = [kind |-> "numeric",
                        value |-> clean_numeric(score_args.text)]
    /\ UNCHANGED <<pc, rows_seen, df, whale_opportunities, df_filtered,
                   clusters, cluster_opportunities, whale_csv, filtered_csv,
                   score_args, research_vars, app_vars>>

\* self._clean_percent(cell)
CallCleanPercent ==
    /\ score_result = NoCall
    /\ score_args.kind = "cell"
    /\ score_result' = [kind |-> "percent",
                        value |-> clean_percent(score_args.text)]
    /\ UNCHANGED <<pc, rows_seen, df, whale_opportunities, df_filtered,
                   clusters, cluster_opportunities, whale_csv, filtered_csv,
                   score_args, research_vars, app_vars>>

NextClean == CallCleanNumeric \/ CallCleanPercent

SpecClean == InitClean /\ [][NextClean]_vars

(***************************************************************************)
(* asistente.py.  A market price (current_price) is in mills; the prices   *)
(* an opportunity carries (avg_purchase_price, purchase_price) are in      *)
(* cents.  momentum_pct is kept as the exact fraction num / den until it   *)
(* is rounded to two decimals (hundredths of a percent) for the record.    *)
(* The market columns and the research_signals text that                   *)
(* analyze_opportunities adds to a record are left out.                    *)
(***************************************************************************)
\* momentum_config
early_max == 5

confirmed_max == 15

\* dict.update: the fields of b over those of a
Update(a, b) ==
    [f \in DOMAIN a \cup DOMAIN b |-> IF f \in DOMAIN b THEN b[f] ELSE a[f]]

\* mutant: the slice keeps the whole list
Take_NoLimit(s, n) == s

\* s[:n]
Take(s, n) == SubSeq(s, 1, Min2(n, Len(s)))

\* ((current_price - insider_price) / insider_price) * 100
MomentumPct(current_price, insider_price) ==
    IF insider_price = 0
    THEN [kind |-> "ZeroDivisionError"]
    ELSE [kind |-> "float",
          num |-> (current_price - 10 * insider_price) * 100,
          den |-> 10 * insider_price]

\* mutant: the confirmed stage ends below confirmed_max instead of at it
StageOf_ConfirmedExclusive(m) ==
    IF m.num <= early_max * m.den
    THEN IF m.num >= 0 THEN "early_positive" ELSE "early_negative"
    ELSE IF m.num < confirmed_max * m.den THEN "confirmed"
    ELSE "late"

\* the stage chain, for a momentum num / den with den > 0
StageOf(m) ==
    IF m.num <= early_max * m.den
    THEN IF m.num >= 0 THEN "early_positive" ELSE "early_negative"
    ELSE IF m.num <= confirmed_max * m.den THEN "confirmed"
    ELSE "late"

\* stage_desc and risk_level, set in the same branches as stage
StageDesc(stage) ==
    CASE stage = "early_positive" -> "Early Positive"
      [] stage = "early_negative" -> "Early Negative"
      [] stage = "confirmed" -> "Confirmed"
      [] OTHER -> "Late Momentum"

RiskLevel(stage) ==
    CASE stage = "early_positive" -> "medium"
      [] stage = "early_negative" -> "high"
      [] stage = "confirmed" -> "medium-low"
      [] OTHER -> "high"

Strategy(action, position_size, stop_loss, target, reasoning) ==
    [action |-> action, position_size |-> position_size,
     stop_loss |-> stop_loss, target |-> target, reasoning |-> reasoning]

\* mutant: the early_negative branch does not look at the opportunity type
get_strategy_recommendation_IgnoringType(stage, momentum_pct, opportunity) ==
    IF stage = "early_positive"
    THEN Strategy("consider_entry", "small_to_medium", "-8%", "+15%",
                  "Early validation of insider thesis")
    ELSE IF stage = "early_negative"
    THEN Strategy("caution", "small", "-8%", "+15%",
                  "Insiders down money - early or wrong?")
    ELSE IF stage = "confirmed"
    THEN Strategy("good_entry", "medium", "-6%", "+12%",
                  "Validated momentum, lower risk")
    ELSE Strategy("avoid", "none", "n/a", "n/a",
                  "Late entry - limited upside")

get_strategy_recommendation(stage, momentum_pct, opportunity) ==
    LET opp_type == opportunity.type
    IN  IF stage = "early_positive"
        THEN Strategy("consider_entry", "small_to_medium", "-8%", "+15%",
                      "Early validation of insider thesis")
        ELSE IF stage = "early_negative"
        THEN IF opp_type = "whale"
             THEN Strategy("strong_consider", "medium", "-10%", "+20%",
                           "Whale conviction + discount entry")
             ELSE Strategy("caution", "small", "-8%", "+15%",
                           "Insiders down money - early or wrong?")
        ELSE IF stage = "confirmed"
        THEN Strategy("good_entry", "medium", "-6%", "+12%",
                      "Validated momentum, lower risk")
        ELSE Strategy("avoid", "none", "n/a", "n/a",
                      "Late entry - limited upside")

\* the record returned once the momentum is computed
MomentumData(opportunity, current_price, insider_price, m) ==
    IF m.kind = "ZeroDivisionError"
    THEN [kind |-> "raise"]
    ELSE [kind |-> "dict",
          data |->
            [current_price |-> Round2(current_price),
             insider_price |-> insider_price,
             momentum_pct |-> RoundDiv(m.num * 100, m.den),
             stage |-> StageOf(m),
             stage_desc |-> StageDesc(StageOf(m)),
             risk_level |-> RiskLevel(StageOf(m)),
             strategy |-> get_strategy_recommendation(StageOf(m), m,
                                                      opportunity)]]

\* the insider's reference price of an opportunity
InsiderPrice(opportunity) ==
    IF opportunity.type = "whale"
    THEN opportunity.purchase_price
    ELSE opportunity.avg_purchase_price

\* mutant: the insider_price <= 0 test left out
calculate_momentum_and_stage_NoPriceGuard(opportunity, market) ==
    IF opportunity.ticker \notin DOMAIN market
    THEN [kind |-> "None"]
    ELSE IF market[opportunity.ticker].current_price <= 0
    THEN [kind |-> "None"]
    ELSE MomentumData(opportunity, market[opportunity.ticker].current_price,
                      InsiderPrice(opportunity),
                      MomentumPct(market[opportunity.ticker].current_price,
                                  InsiderPrice(opportunity)))

calculate_momentum_and_stage(opportunity, market) ==
    LET ticker == opportunity.ticker
    IN  IF ticker \notin DOMAIN market
        THEN [kind |-> "None"]
        ELSE LET current_price == market[ticker].current_price
             IN  IF current_price <= 0
                 THEN [kind |-> "None"]
                 ELSE LET insider_price == InsiderPrice(opportunity)
                      IN  IF insider_price <= 0
                          THEN [kind |-> "None"]
                          ELSE MomentumData(opportunity, current_price,
                                            insider_price,
                                            MomentumPct(current_price,
                                                        insider_price))

\* one pass of the loop body of analyze_opportunities over opp
Enriched(opp, market) ==
    Update(opp, calculate_momentum_and_stage(opp, market).data)

\* mutant: one ticker without a quote empties the whole list
EnrichedOf_AllOrNothing(data, market) ==
    IF \E k \in 1..Len(data) : data[k].ticker \notin DOMAIN market
    THEN <<>>
    ELSE LET kept == SelectSeq(data,
                        LAMBDA opp :
                            calculate_momentum_and_stage(opp, market).kind
                                = "dict")
         IN  [k \in 1..Len(kept) |-> Enriched(kept[k], market)]

\* the records appended to all_enriched for one of the two lists
EnrichedOf(data, market) ==
    LET kept == SelectSeq(data,
                    LAMBDA opp :
                        calculate_momentum_and_stage(opp, market).kind = "dict")
    IN  [k \in 1..Len(kept) |-> Enriched(kept[k], market)]

\* an exception leaves calculate_momentum_and_stage for some opportunity
AnalysisRaises(data, market) ==
    \E k \in 1..Len(data) :
        calculate_momentum_and_stage(data[k], market).kind = "raise"

\* clusters first, then whales
AnalyzeOpportunitiesResult(clusters_in, whales_in, market) ==
    EnrichedOf(clusters_in, market) \o EnrichedOf(whales_in, market)

RECURSIVE InsertByMomentum(_, _)
InsertByMomentum(x, s) ==
    IF Len(s) = 0 THEN <<x>>
    ELSE IF s[1].momentum_pct >= x.momentum_pct
         THEN <<s[1]>> \o InsertByMomentum(x, Tail(s))
         ELSE <<x>> \o s

RECURSIVE SortByMomentum(_)
\* list.sort(key=momentum_pct, reverse=True): stable
SortByMomentum(s) ==
    IF Len(s) = 0 THEN <<>>
    ELSE InsertByMomentum(s[Len(s)], SortByMomentum(SubSeq(s, 1, Len(s) - 1)))

\* the sort key of top_research_targets
TargetKey(opp) == IF opp.type = "cluster" THEN opp.score ELSE opp.whale_score

RECURSIVE InsertByTargetKey(_, _)
InsertByTargetKey(x, s) ==
    IF Len(s) = 0 THEN <<x>>
    ELSE IF TargetKey(s[1]) >= TargetKey(x)
         THEN <<s[1]>> \o InsertByTargetKey(x, Tail(s))
         ELSE <<x>> \o s

RECURSIVE SortByTargetKey(_)
\* sorted(enriched_opportunities, key=..., reverse=True): stable
SortByTargetKey(s) ==
    IF Len(s) = 0 THEN <<>>
    ELSE InsertByTargetKey(s[Len(s)],
                           SortByTargetKey(SubSeq(s, 1, Len(s) - 1)))

\* round(sum(momentum_pct) / len, 1), in tenths of a percent; 0 for no records
AvgMomentum(enriched) ==
    IF Len(enriched) > 0
    THEN RoundDiv(SumSeq([k \in 1..Len(enriched) |-> enriched[k].momentum_pct]),
                  10 * Len(enriched))
    ELSE 0

GenerateResearchReportResult(enriched) ==
    LET early == SortByMomentum(SelectSeq(enriched,
                    LAMBDA o : o.stage \in {"early_positive", "early_negative"}))
        confirmed == SortByMomentum(SelectSeq(enriched,
                        LAMBDA o : o.stage = "confirmed"))
        late == SelectSeq(enriched, LAMBDA o : o.stage = "late")
        whales == SortByMomentum(SelectSeq(enriched,
                        LAMBDA o : o.type = "whale"))
        cluster_opps == SelectSeq(enriched, LAMBDA o : o.type = "cluster")
    IN  [kind |-> "report",
         summary |->
            [total_opportunities |-> Len(enriched),
             whale_opportunities |-> Len(whales),
             cluster_opportunities |-> Len(cluster_opps),
             early_stage |-> Len(early),
             confirmed_stage |-> Len(confirmed),
             late_stage |-> Len(late),
             avg_momentum |-> AvgMomentum(enriched)],
         stage_buckets |->
            [early_opportunities |-> Take(early, 10),
             confirmed_opportunities |-> Take(confirmed, 10),
             late_opportunities |-> Take(late, 5)],
         type_buckets |->
            [whale_opportunities |-> Take(whales, 5),
             top_cluster_opportunities |-> Take(cluster_opps, 10)],
         top_research_targets |-> Take(SortByTargetKey(enriched), 15)]

(***************************************************************************)
(* asistente.main: one research run over the two opportunity files.        *)
(***************************************************************************)
MaxOpps == 2

ResearchTickers == {"AB", "CD"}

\* a row of the clusters file, as save_opportunities writes it
ClusterRecord(ticker, score, avg_purchase_price) ==
    [type |-> "cluster",
     ticker |-> ticker,
     score |-> score,
     insider_count |-> 2,
     total_value_usd |-> 1000000,
     avg_purchase_value |-> 500000,
     avg_purchase_price |-> avg_purchase_price,
     days_since_latest |-> 3,
     freshness |-> "fresh"]

\* reference prices of 0.00 (a sub-cent price, rounded) and 100.00
ClusterRecords ==
    {ClusterRecord(t, sc, p) :
        t \in ResearchTickers, sc \in {55, 90}, p \in {0, 10000}}

\* rows of the whales file: whale_opp records of detect_whale_trades
WhaleRecords ==
    {WhaleOpp(Row(t, "Ann Lee", title, "P - Purchase", price, 1000, 99000000,
                  "2026-10-30")) :
        t \in ResearchTickers, title \in {"CEO", "Dir"}, price \in {4, 100000}}

\* the clusters file holds one row per ticker, by descending score
IsClustersFile(records) ==
    /\ \A i, j \in 1..Len(records) :
          i < j => /\ records[i].ticker # records[j].ticker
                   /\ records[i].score >= records[j].score

\* the whales file is ordered by descending whale_score
IsWhalesFile(records) ==
    \A i, j \in 1..Len(records) :
        i < j => records[i].whale_score >= records[j].whale_score

\* a file is written only with at least one row
FileOf(records) ==
    IF Len(records) > 0 THEN [exists |-> TRUE, records |-> records] ELSE NoFile

\* quotes around the stage boundaries of a 100.00 reference price, in mills
QuotePrices == {0, 99990, 100000, 105000, 105010, 115000, 115004, 115010}

\* the market_data dictionaries enrich_with_market_data can return
MarketDatas(tickers) ==
    UNION {[S -> [current_price : QuotePrices]] : S \in SUBSET tickers}

InitResearch ==
    /\ pc = "done"
    /\ rows_seen = 0
    /\ AppIdle
    /\ df = <<>>
    /\ whale_opportunities = <<>>
    /\ df_filtered = <<>>
    /\ clusters = <<>>
    /\ cluster_opportunities = <<>>
    /\ \E n \in 0..MaxOpps :
          \E cs \in SeqsUpTo(ClusterRecords, n) :
             \E ws \in SeqsUpTo(WhaleRecords, MaxOpps - n) :
                /\ IsClustersFile(cs)
                /\ IsWhalesFile(ws)
                /\ filtered_csv = FileOf(cs)
                /\ whale_csv = FileOf(ws)
    /\ score_args = NoCall
    /\ score_result = NoCall
    /\ apc = "load_opportunities"
    /\ cluster_data = <<>>
    /\ whale_data = <<>>
    /\ market_data = <<>>
    /\ all_enriched = <<>>
    /\ report = [kind |-> "none"]

scraper_vars ==
    <<pc, rows_seen, df, whale_opportunities, df_filtered, clusters,
      cluster_opportunities, whale_csv, filtered_csv>>

\* load_opportunities and the exit of main when it finds nothing
LoadOpportunities ==
    /\ apc = "load_opportunities"
    /\ cluster_data' = IF filtered_csv.exists THEN filtered_csv.records ELSE <<>>
    /\ whale_data' = IF whale_csv.exists THEN whale_csv.records ELSE <<>>
    /\ apc' = IF Len(cluster_data') = 0 /\ Len(whale_data') = 0
              THEN "exit_1"
              ELSE "enrich_with_market_data"
    /\ UNCHANGED <<scraper_vars, score_vars, app_vars, market_data,
                   all_enriched, report>>

\* enrich_with_market_data: each ticker gets a quote or is left out
EnrichWithMarketData ==
    /\ apc = "enrich_with_market_data"
    /\ \E md \in MarketDatas({(cluster_data \o whale_data)[k].ticker :
                                k \in 1..Len(cluster_data \o whale_data)}) :
          market_data' = md
    /\ apc' = "analyze_opportunities"
    /\ UNCHANGED <<scraper_vars, score_vars, app_vars, cluster_data, whale_data,
                   all_enriched, report>>

AnalyzeOpportunities ==
    /\ apc = "analyze_opportunities"
    /\ IF AnalysisRaises(cluster_data \o whale_data, market_data)
       THEN /\ apc' = "ZeroDivisionError"
            /\ UNCHANGED all_enriched
       ELSE /\ all_enriched' = AnalyzeOpportunitiesResult(cluster_data,
                                                          whale_data,
                                                          market_data)
            /\ apc' = "generate_research_report"
    /\ UNCHANGED <<scraper_vars, score_vars, app_vars, cluster_data, whale_data,
                   market_data, report>>

GenerateResearchReport ==
    /\ apc = "generate_research_report"
    /\ report' = GenerateResearchReportResult(all_enriched)
    /\ apc' = "print_research_summary"
    /\ UNCHANGED <<scraper_vars, score_vars, app_vars, cluster_data, whale_data,
                   market_data, all_enriched>>

\* print_research_summary reads insider_count and avg_purchase_price of the
\* first three confirmed records: a whale record has neither
SummaryRaises(r) ==
    \E k \in 1..Min2(3, Len(r.stage_buckets.confirmed_opportunities)) :
        r.stage_buckets.confirmed_opportunities[k].type = "whale"

PrintResearchSummary ==
    /\ apc = "print_research_summary"
    /\ apc' = IF SummaryRaises(report) THEN "KeyError" ELSE "done"
    /\ UNCHANGED <<scraper_vars, score_vars, app_vars, cluster_data, whale_data,
                   market_data, all_enriched, report>>

NextResearch ==
    \/ LoadOpportunities
    \/ EnrichWithMarketData
    \/ AnalyzeOpportunities
    \/ GenerateResearchReport
    \/ PrintResearchSummary

SpecResearch == InitResearch /\ [][NextResearch]_vars

(***************************************************************************)
(* generate_research_report on enriched sets larger than its buckets: the  *)
(* run starts when analyze_opportunities has returned.                     *)
(***************************************************************************)
MaxReportClusters == 11

MaxReportWhales == 6

ReportTickers == <<"A", "B", "C", "D", "E", "F", "G", "H", "I", "J", "K", "L">>

\* the clusters file of n tickers, scores between 50 and 95
ReportClusters(n) ==
    SortByScore([k \in 1..n |->
                    ClusterRecord(ReportTickers[k], 50 + ((k * 15) % 50), 10000)])

\* the whales file of n whales of the last ticker, CEO and 10% owner in turn
ReportWhales(n) ==
    SortByWhaleScore(
        [k \in 1..n |->
            WhaleOpp(Row(ReportTickers[Len(ReportTickers)], "Ann Lee",
                         IF k % 2 = 0 THEN "CEO" ELSE "10%", "P - Purchase",
                         100000, 1000, 99000000, "2026-10-30"))])

\* no quote, or one in each stage of a 100.00 reference price, in mills
ReportQuotePrices == {0, 99990, 105000, 115000, 115010}

\* a quote for every ticker: the odd cluster tickers share a price, the even
\* ones another, the whale ticker has its own
ReportMarkets ==
    {[t \in Range(ReportTickers) |->
        [current_price |->
            LET k == CHOOSE i \in DOMAIN ReportTickers : ReportTickers[i] = t
            IN  IF k = Len(ReportTickers) THEN last
                ELSE IF k % 2 = 0 THEN even ELSE odd]] :
        odd \in ReportQuotePrices, even \in ReportQuotePrices,
        last \in ReportQuotePrices}

InitReport ==
    /\ pc = "done"
    /\ rows_seen = 0
    /\ AppIdle
    /\ df = <<>>
    /\ whale_opportunities = <<>>
    /\ df_filtered = <<>>
    /\ clusters = <<>>
    /\ cluster_opportunities = <<>>
    /\ score_args = NoCall
    /\ score_result = NoCall
    /\ \E nc \in 0..MaxReportClusters :
          \E nw \in 0..MaxReportWhales :
             /\ nc + nw > 0
             /\ cluster_data = ReportClusters(nc)
             /\ whale_data = ReportWhales(nw)
    /\ filtered_csv = FileOf(cluster_data)
    /\ whale_csv = FileOf(whale_data)
    /\ market_data \in ReportMarkets
    /\ all_enriched = AnalyzeOpportunitiesResult(cluster_data, whale_data,
                                                 market_data)
    /\ apc = "generate_research_report"
    /\ report = [kind |-> "none"]

NextReport ==
    \/ GenerateResearchReport
    \/ PrintResearchSummary

SpecReport == InitReport /\ [][NextReport]_vars

(***************************************************************************)
(* app.run_full_pipeline, any number of times over one data directory:     *)
(* scraper.py, then asistente.py if the scraper exited with 0.  Each run   *)
(* is a new pair of processes; only the files outlive it.                  *)
(***************************************************************************)
\* one insider's 3-day-old purchases of AB at 1.25: of whale size, of cluster
\* size, and below every threshold
PipelineRows ==
    {Row("AB", "Ann Lee", "CEO", "P - Purchase", 1250, 1000, v, "2026-10-30") :
        v \in {120000000, 500000, 499999}}

\* result1.returncode = 0: asistente.py is started
StartResearch ==
    /\ pc = "done"
    /\ apc = "idle"
    /\ apc' = "load_opportunities"
    /\ UNCHANGED <<scraper_vars, score_vars, app_vars, cluster_data, whale_data,
                   market_data, all_enriched, report>>

\* run_full_pipeline has returned, with or without an error
PipelineEnded ==
    \/ pc \in {"exit_1", "KeyError"}
    \/ apc \in {"done", "exit_1", "KeyError", "ZeroDivisionError"}

\* the next call of run_full_pipeline
NextPipelineRun ==
    /\ PipelineEnded
    /\ pc' = "scrape"
    /\ rows_seen' = 0
    /\ df' = <<>>
    /\ whale_opportunities' = <<>>
    /\ df_filtered' = <<>>
    /\ clusters' = <<>>
    /\ cluster_opportunities' = <<>>
    /\ apc' = "idle"
    /\ cluster_data' = <<>>
    /\ whale_data' = <<>>
    /\ market_data' = <<>>
    /\ all_enriched' = <<>>
    /\ report' = [kind |-> "none"]
    /\ UNCHANGED <<whale_csv, filtered_csv, score_vars, app_vars>>

NextPipeline ==
    \/ ScrapeRow(PipelineRows)
    \/ ScrapeDone
    \/ ScrapeFail
    \/ DetectWhaleTrades
    \/ DetectWhaleTradesKeyError
    \/ ApplyIntelligentFilters
    \/ DetectClusterBuying
    \/ SaveOpportunities
    \/ StartResearch
    \/ LoadOpportunities
    \/ EnrichWithMarketData
    \/ AnalyzeOpportunities
    \/ GenerateResearchReport
    \/ PrintResearchSummary
    \/ NextPipelineRun

SpecPipeline == Init /\ [][NextPipeline]_vars

(***************************************************************************)
(* app.py: the web application.  POST /api/run-pipeline is answered by     *)
(* api_run_pipeline, which starts run_full_pipeline in a thread of its     *)
(* own; the two subprocess steps of a run are modelled by their outcomes.  *)
(***************************************************************************)
\* the thread of request r executes run_full_pipeline, first statement done
Executing(r) == thread[r].at \in {"scraper", "asistente", "finally"}

\* api_run_pipeline: refuse when the flag is set, else start the thread and
\* answer at once; the thread has not yet run a statement of run_full_pipeline
ApiRunPipeline(r) ==
    /\ request[r] = "pending"
    /\ IF is_scraping
       THEN /\ request' = [request EXCEPT ![r] = "rejected"]
            /\ UNCHANGED thread
       ELSE /\ request' = [request EXCEPT ![r] = "started"]
            /\ thread' = [thread EXCEPT ![r] = [at |-> "started",
                                                outcome |-> "none"]]
    /\ UNCHANGED <<scraper_vars, score_vars, research_vars, is_scraping,
                   status>>

\* run_full_pipeline, first statement: self.is_scraping = True
RunFullPipelineBegin(r) ==
    /\ thread[r].at = "started"
    /\ is_scraping' = TRUE
    /\ thread' = [thread EXCEPT ![r].at = "scraper"]
    /\ UNCHANGED <<scraper_vars, score_vars, research_vars, request, status>>

\* step 1: scraper.py returns 0, returns non-zero or exceeds the timeout
RunScraperStep(r) ==
    /\ thread[r].at = "scraper"
    /\ \/ thread' = [thread EXCEPT ![r].at = "asistente"]
       \/ \E f \in {"failed", "timeout"} :
             thread' = [thread EXCEPT ![r] = [at |-> "finally",
                                              outcome |-> "scraper_" \o f]]
    /\ UNCHANGED <<scraper_vars, score_vars, research_vars, is_scraping,
                   request, status>>

\* step 2: asistente.py returns 0, returns non-zero or exceeds the timeout
RunResearchStep(r) ==
    /\ thread[r].at = "asistente"
    /\ \/ thread' = [thread EXCEPT ![r] = [at |-> "finally", outcome |-> "ok"]]
       \/ \E f \in {"failed", "timeout"} :
             thread' = [thread EXCEPT ![r] = [at |-> "finally",
                                              outcome |-> "research_" \o f]]
    /\ UNCHANGED <<scraper_vars, score_vars, research_vars, is_scraping,
                   request, status>>

\* the finally clause: self.is_scraping = False, then the run returns
RunFullPipelineFinally(r) ==
    /\ thread[r].at = "finally"
    /\ is_scraping' = FALSE
    /\ thread' = [thread EXCEPT ![r].at = "ended"]
    /\ UNCHANGED <<scraper_vars, score_vars, research_vars, request, status>>

\* GET /api/status: get_system_status reports the flag as it is
GetSystemStatus ==
    /\ status' = [kind |-> "status", is_scraping |-> is_scraping]
    /\ UNCHANGED <<scraper_vars, score_vars, research_vars, is_scraping,
                   request, thread>>

InitApp ==
    /\ pc = "idle"
    /\ rows_seen = 0
    /\ df = <<>>
    /\ whale_opportunities = <<>>
    /\ df_filtered = <<>>
    /\ clusters = <<>>
    /\ cluster_opportunities = <<>>
    /\ whale_csv = NoFile
    /\ filtered_csv = NoFile
    /\ score_args = NoCall
    /\ score_result = NoCall
    /\ ResearchIdle
    /\ AppIdle

NextApp ==
    \/ \E r \in Requests : ApiRunPipeline(r)
    \/ \E r \in Requests : RunFullPipelineBegin(r)
    \/ \E r \in Requests : RunScraperStep(r)
    \/ \E r \in Requests : RunResearchStep(r)
    \/ \E r \in Requests : RunFullPipelineFinally(r)
    \/ GetSystemStatus

SpecApp == InitApp /\ [][NextApp]_vars

(***************************************************************************)
(* Properties of the detection run.                                        *)
(***************************************************************************)
\* every detector of the run has produced its output
Detected == pc \in {"save_opportunities", "done"}

\* apply_intelligent_filters has produced df_filtered
Filtered == pc \in {"detect_cluster_buying", "save_opportunities", "done"}

\* the whale record w was built from the filing row
WhaleOf(w, row) ==
    /\ w.ticker = row.ticker
    /\ w.insider_name = row.insider_name
    /\ w.title = row.title
    /\ w.purchase_value_usd = Abs(row.transaction_value)
    /\ w.purchase_date = row.trade_date

\* the filing row appears in the whale output
InWhaleOutput(row) ==
    \E k \in 1..Len(whale_opportunities) : WhaleOf(whale_opportunities[k], row)

\* the filing row is a member of some cluster
InSomeCluster(row) ==
    \E k \in 1..Len(clusters) :
        /\ clusters[k].ticker = row.ticker
        /\ \E j \in 1..Len(clusters[k].purchases) :
              LET p == clusters[k].purchases[j]
              IN  /\ p.insider = row.insider_name
                  /\ p.title = row.title
                  /\ p.value = Abs(row.transaction_value)
                  /\ p.price = row.price
                  /\ p.date = row.trade_date

\* the restrictive (whale) and the broad (cluster) role allowlists, as stated
RestrictiveRole(title) ==
    \E w \in {"ceo", "chief executive", "founder", "co-founder", "10%"} :
        Contains(Lower(title), w)

BroadRole(title) ==
    \E w \in {"ceo", "chief executive", "founder", "co-founder", "cfo",
              "chief financial", "president", "chairman", "chair", "10%"} :
        Contains(Lower(title), w)

PurchaseType(row) == Contains(row.transaction_type, "P - Purchase")

TickerLengthOk(row) == Len(row.ticker) \in 1..5

\* C1 as stated: a filing with abs(transaction_value) >= whale_threshold, a
\* title on the whale allowlist and price > 0 appears in the whale output and
\* is a member of no cluster.
C1_Original ==
    Detected =>
        \A i \in 1..Len(df) :
            ( /\ Abs(df[i].transaction_value) >= whale_threshold
              /\ RestrictiveRole(df[i].title)
              /\ df[i].price > 0 )
            => (InWhaleOutput(df[i]) /\ ~InSomeCluster(df[i]))

\* C1 as amended: a purchase filing with ticker length in 1..5,
\* abs(transaction_value) >= whale_threshold, a title on the whale allowlist
\* and price > 0 appears in the whale output and is a member of no cluster.
C1_Amended ==
    Detected =>
        \A i \in 1..Len(df) :
            ( /\ PurchaseType(df[i])
              /\ TickerLengthOk(df[i])
              /\ Abs(df[i].transaction_value) >= whale_threshold
              /\ RestrictiveRole(df[i].title)
              /\ df[i].price > 0 )
            => (InWhaleOutput(df[i]) /\ ~InSomeCluster(df[i]))

\* a finished run with a whale-range purchase of exactly the threshold next
\* to a filing that went to a cluster
C1_Witness ==
    /\ pc = "done"
    /\ Len(clusters) > 0
    /\ \E i \in 1..Len(df) :
          /\ PurchaseType(df[i]) /\ TickerLengthOk(df[i])
          /\ df[i].transaction_value = whale_threshold
          /\ RestrictiveRole(df[i].title)
          /\ InWhaleOutput(df[i])

\* C2: every filing that survives apply_intelligent_filters, and so every
\* cluster member, has min_purchase_value <= abs(transaction_value) <
\* whale_threshold, and no filing is both a cluster member and a whale.
C2_ClusterValueRange ==
    /\ Filtered =>
          \A i \in 1..Len(df_filtered) :
              /\ min_purchase_value <= Abs(df_filtered[i].transaction_value)
              /\ Abs(df_filtered[i].transaction_value) < whale_threshold
    /\ Detected =>
          /\ \A k \in 1..Len(clusters) :
                \A j \in 1..Len(clusters[k].purchases) :
                    /\ min_purchase_value <= clusters[k].purchases[j].value
                    /\ clusters[k].purchases[j].value < whale_threshold
          /\ \A i \in 1..Len(df) :
                ~(InWhaleOutput(df[i]) /\ InSomeCluster(df[i]))

\* a finished run that produced both a whale and a cluster
C2_Witness ==
    /\ pc = "done"
    /\ Len(whale_opportunities) > 0
    /\ Len(clusters) > 0
    /\ Len(df_filtered) > 0

\* C3 as stated: every purchase filing with a title on the broad allowlist,
\* ticker length in 1..5, price > 0 and min_purchase_value <=
\* abs(transaction_value) < whale_threshold is admitted by
\* apply_intelligent_filters, up to removal of exact duplicates.
C3_HalfOpenRangeAdmitted ==
    Filtered =>
        \A i \in 1..Len(df) :
            ( /\ PurchaseType(df[i])
              /\ BroadRole(df[i].title)
              /\ TickerLengthOk(df[i])
              /\ df[i].price > 0
              /\ min_purchase_value <= Abs(df[i].transaction_value)
              /\ Abs(df[i].transaction_value) < whale_threshold )
            => \E j \in 1..Len(df_filtered) :
                   DuplicateKey(df_filtered[j]) = DuplicateKey(df[i])

\* the filing has all five properties of a whale
C4_Qualifies(row) ==
    /\ PurchaseType(row)
    /\ Abs(row.transaction_value) >= whale_threshold
    /\ RestrictiveRole(row.title)
    /\ TickerLengthOk(row)
    /\ row.price > 0

\* C4: detect_whale_trades emits a whale record for a filing if and only if
\* the filing is a purchase with abs(transaction_value) >= whale_threshold, a
\* title on the restrictive allowlist, ticker length in 1..5 and price > 0,
\* and it emits exactly one record per such filing.
C4_WhaleIffFiveConditions ==
    pc \notin {"scrape", "detect_whale_trades", "exit_1", "KeyError"} =>
        /\ Len(whale_opportunities)
             = Cardinality({i \in 1..Len(df) : C4_Qualifies(df[i])})
        /\ \A k \in 1..Len(whale_opportunities) :
              \E i \in 1..Len(df) :
                  C4_Qualifies(df[i]) /\ WhaleOf(whale_opportunities[k], df[i])
        /\ \A i \in 1..Len(df) :
              C4_Qualifies(df[i]) =>
                  Cardinality({k \in 1..Len(whale_opportunities) :
                                  WhaleOf(whale_opportunities[k], df[i])})
                    = Cardinality({j \in 1..Len(df) :
                                      /\ C4_Qualifies(df[j])
                                      /\ WhaleOf(WhaleOpp(df[i]), df[j])})

\* a finished run over a qualifying filing and a whale-sized sale by a CEO
C4_Witness ==
    /\ pc = "done"
    /\ Len(whale_opportunities) = 1
    /\ \E i, j \in 1..Len(df) :
          /\ C4_Qualifies(df[i])
          /\ ~PurchaseType(df[j])
          /\ Abs(df[j].transaction_value) >= whale_threshold
          /\ RestrictiveRole(df[j].title)
          /\ TickerLengthOk(df[j])

\* <<ticker, score>> of each record of a list, in order
TickerScores(s) == [k \in 1..Len(s) |-> <<s[k].ticker, s[k].score>>]

C6_AtLeastFloor(c) == c.score >= 50

\* C6: no cluster with score < 50 is among the cluster opportunities returned
\* and persisted by save_opportunities, and every detected cluster with
\* score >= 50 is among them, in the same relative order.
C6_AcceptanceFloor ==
    pc = "done" =>
        /\ \A k \in 1..Len(cluster_opportunities) :
              cluster_opportunities[k].score >= 50
        /\ \A k \in 1..Len(filtered_csv.records) :
              filtered_csv.records[k].score >= 50
        /\ TickerScores(cluster_opportunities)
             = TickerScores(SelectSeq(clusters, C6_AtLeastFloor))
        /\ Len(cluster_opportunities) > 0 =>
              filtered_csv = [exists |-> TRUE, records |-> cluster_opportunities]

\* a finished run with a cluster below the floor, one exactly at the floor and
\* so one kept and one dropped
C6_Witness ==
    /\ pc = "done"
    /\ \E k \in 1..Len(clusters) : clusters[k].score < 50
    /\ \E k \in 1..Len(clusters) : clusters[k].score = 50
    /\ Len(cluster_opportunities) = 1

ClusterMinPrice(c) ==
    MinSeq([j \in 1..Len(c.purchases) |-> c.purchases[j].price])

ClusterMaxPrice(c) ==
    MaxSeq([j \in 1..Len(c.purchases) |-> c.purchases[j].price])

\* C7 as stated: the stored avg_purchase_price of every cluster lies between
\* the minimum and the maximum price of its member filings (prices in mills,
\* the stored price in cents).
C7_Original ==
    Detected =>
        \A k \in 1..Len(clusters) :
            /\ ClusterMinPrice(clusters[k]) <= 10 * clusters[k].avg_purchase_price
            /\ 10 * clusters[k].avg_purchase_price <= ClusterMaxPrice(clusters[k])

\* C7 as amended: the stored avg_purchase_price, the weighted mean rounded to
\* two decimals, lies within half a cent of the range from the minimum to the
\* maximum member price, and inside that range when every member price is a
\* whole number of cents.
C7_Amended ==
    Detected =>
        \A k \in 1..Len(clusters) :
            LET c == clusters[k]
                stored == 10 * c.avg_purchase_price
            IN  /\ ClusterMinPrice(c) - 5 <= stored
                /\ stored <= ClusterMaxPrice(c) + 5
                /\ (\A j \in 1..Len(c.purchases) : c.purchases[j].price % 10 = 0)
                      => /\ ClusterMinPrice(c) <= stored
                         /\ stored <= ClusterMaxPrice(c)

\* a cluster of two purchases of different whole-cent prices and different
\* values, whose stored price is strictly between them and off the midpoint
C7_Witness ==
    /\ pc = "done"
    /\ \E k \in 1..Len(clusters) :
          LET c == clusters[k]
          IN  /\ Len(c.purchases) = 2
              /\ c.purchases[1].price = 120 /\ c.purchases[2].price = 250
              /\ c.purchases[1].value > c.purchases[2].value
              /\ c.avg_purchase_price = 15

\* C5: for any total value, insider count, member titles and days-since value,
\* the 999 sentinel included, the cluster score and the whale score are in
\* the closed range 0..100.
C5_ScoresWithinRange ==
    score_result.kind \in {"cluster", "whale"} =>
        (0 <= score_result.value /\ score_result.value <= 100)

\* a cluster score computed for the 999 sentinel on the lowest inputs
C5_Witness ==
    /\ score_result.kind = "cluster"
    /\ score_args.days_since = 999
    /\ score_args.total_value = 0
    /\ score_args.titles = <<>>
    /\ score_result.value = 15

(***************************************************************************)
(* Properties of the research run.                                         *)
(***************************************************************************)
\* analyze_opportunities has returned
Analyzed ==
    apc \in {"generate_research_report", "print_research_summary", "done",
             "KeyError"}

LoadedOpps == cluster_data \o whale_data

\* the reference price the claim names for each type, in cents
ReferencePrice(opp) ==
    IF opp.type = "cluster" THEN opp.avg_purchase_price ELSE opp.purchase_price

\* a positive current price was supplied for the ticker
HasCurrentPrice(ticker) ==
    /\ ticker \in DOMAIN market_data
    /\ market_data[ticker].current_price > 0

\* the enriched record e was made from the opportunity opp
MadeFrom(e, opp) ==
    /\ DOMAIN opp \subseteq DOMAIN e
    /\ \A f \in DOMAIN opp : e[f] = opp[f]

\* every record held by some bucket of the report
ReportRecords ==
    IF report.kind # "report" THEN {}
    ELSE Range(report.stage_buckets.early_opportunities)
         \cup Range(report.stage_buckets.confirmed_opportunities)
         \cup Range(report.stage_buckets.late_opportunities)
         \cup Range(report.type_buckets.whale_opportunities)
         \cup Range(report.type_buckets.top_cluster_opportunities)
         \cup Range(report.top_research_targets)

\* C8: an opportunity whose ticker has no current price, or whose reference
\* price (avg_purchase_price of a cluster, purchase_price of a whale) is <= 0,
\* gets no result: the analysis does not raise, the opportunity is not in the
\* enriched set, and every record of the report has a positive reference
\* price and a positive current price behind its momentum.
C8_NoResultWithoutPrices ==
    /\ apc # "ZeroDivisionError"
    /\ Analyzed =>
          \A k \in 1..Len(LoadedOpps) :
              (~HasCurrentPrice(LoadedOpps[k].ticker)
                  \/ ReferencePrice(LoadedOpps[k]) <= 0)
              => \A j \in 1..Len(all_enriched) :
                    ~MadeFrom(all_enriched[j], LoadedOpps[k])
    /\ \A e \in ReportRecords :
          /\ ReferencePrice(e) > 0
          /\ HasCurrentPrice(e.ticker)

\* a finished run in which one opportunity was left out for its reference
\* price of 0 and another because its ticker got no quote
C8_Witness ==
    /\ apc = "done"
    /\ \E k \in 1..Len(LoadedOpps) :
          /\ ReferencePrice(LoadedOpps[k]) <= 0
          /\ HasCurrentPrice(LoadedOpps[k].ticker)
    /\ \E k \in 1..Len(LoadedOpps) :
          /\ ReferencePrice(LoadedOpps[k]) > 0
          /\ LoadedOpps[k].ticker \notin DOMAIN market_data
    /\ all_enriched = <<>>

\* the momentum of e, recomputed from the quote and the reference price, as
\* the pair <<numerator, denominator>> of a percentage
ExactMomentum(e) ==
    <<(market_data[e.ticker].current_price - 10 * ReferencePrice(e)) * 100,
      10 * ReferencePrice(e)>>

\* the stage and risk level the claim gives a momentum n / d, d > 0
C9_StageAndRisk(n, d) ==
    IF n < 0 THEN <<"early_negative", "high">>
    ELSE IF n <= 5 * d THEN <<"early_positive", "medium">>
    ELSE IF n <= 15 * d THEN <<"confirmed", "medium-low">>
    ELSE <<"late", "high">>

\* C9: every momentum value falls in exactly one stage: below 0 is
\* early_negative (high), 0 to 5 inclusive is early_positive (medium), above 5
\* to 15 inclusive is confirmed (medium-low), above 15 is late (high).
C9_StageBoundaries ==
    \A k \in 1..Len(all_enriched) :
        LET e == all_enriched[k]
            m == ExactMomentum(e)
        IN  <<e.stage, e.risk_level>> = C9_StageAndRisk(m[1], m[2])

\* a run with a momentum of exactly 15 (confirmed) and one of exactly 0
\* (early_positive)
C9_Witness ==
    /\ Analyzed
    /\ \E k \in 1..Len(all_enriched) :
          /\ ExactMomentum(all_enriched[k])[1]
                = 15 * ExactMomentum(all_enriched[k])[2]
          /\ all_enriched[k].stage = "confirmed"
    /\ \E k \in 1..Len(all_enriched) :
          /\ ExactMomentum(all_enriched[k])[1] = 0
          /\ all_enriched[k].stage = "early_positive"

\* the table row of a stage and an opportunity type: action, position size,
\* stop-loss, target
C10_TableRow(stage, type) ==
    CASE stage = "early_positive" ->
            <<"consider_entry", "small_to_medium", "-8%", "+15%">>
      [] stage = "early_negative" /\ type = "whale" ->
            <<"strong_consider", "medium", "-10%", "+20%">>
      [] stage = "early_negative" /\ type # "whale" ->
            <<"caution", "small", "-8%", "+15%">>
      [] stage = "confirmed" ->
            <<"good_entry", "medium", "-6%", "+12%">>
      [] OTHER ->
            <<"avoid", "none", "n/a", "n/a">>

\* C10: the strategy of every enriched opportunity is the table row of its
\* stage and type, and two enriched opportunities of the same stage and type
\* carry the same strategy whatever their momentum and other fields.
C10_StrategyFromTable ==
    /\ \A k \in 1..Len(all_enriched) :
          LET e == all_enriched[k]
          IN  <<e.strategy.action, e.strategy.position_size,
                e.strategy.stop_loss, e.strategy.target>>
                  = C10_TableRow(e.stage, e.type)
    /\ \A j, k \in 1..Len(all_enriched) :
          (all_enriched[j].stage = all_enriched[k].stage
              /\ all_enriched[j].type = all_enriched[k].type)
          => all_enriched[j].strategy = all_enriched[k].strategy

\* a run that enriched an early_negative whale and an early_negative cluster
C10_Witness ==
    /\ Analyzed
    /\ \E j, k \in 1..Len(all_enriched) :
          /\ all_enriched[j].stage = "early_negative"
          /\ all_enriched[j].type = "whale"
          /\ all_enriched[j].strategy.action = "strong_consider"
          /\ all_enriched[k].stage = "early_negative"
          /\ all_enriched[k].type = "cluster"
          /\ all_enriched[k].strategy.action = "caution"

(***************************************************************************)
(* Properties of the whale records.                                        *)
(***************************************************************************)
\* the freshness label and contribution the claim gives an age in days
C11_Freshness(days) ==
    IF days <= 7 THEN <<"fresh", 30>>
    ELSE IF days <= 21 THEN <<"recent", 20>>
    ELSE <<"old", 10>>

\* the confidence label and contribution of a title
C11_Confidence(title) ==
    IF \E w \in {"ceo", "chief executive", "founder", "co-founder"} :
          Contains(Lower(title), w)
    THEN <<"high", 30>>
    ELSE IF Contains(Lower(title), "10%") THEN <<"high", 25>>
    ELSE <<"medium", 15>>

\* C11: every whale record carries the freshness label of its age (fresh up
\* to 7 days, recent up to 21, else old, the 999 sentinel included), the
\* confidence label of its title, and whale_score = min(100, 40 + the two
\* contributions of those labels).
C11_WhaleScoreFormula ==
    \A k \in 1..Len(whale_opportunities) :
        LET w == whale_opportunities[k]
            f == C11_Freshness(w.days_since_trade)
            c == C11_Confidence(w.title)
        IN  /\ w.freshness = f[1]
            /\ w.confidence = c[1]
            /\ w.whale_score = Min2(100, 40 + f[2] + c[2])

\* a CEO purchase 3 days old scored 100, fresh and high, next to a whale with
\* an unparseable date recorded as old
C11_Witness ==
    /\ pc = "done"
    /\ \E k \in 1..Len(whale_opportunities) :
          /\ whale_opportunities[k].title = "CEO"
          /\ whale_opportunities[k].days_since_trade = 3
          /\ whale_opportunities[k].whale_score = 100
          /\ whale_opportunities[k].freshness = "fresh"
          /\ whale_opportunities[k].confidence = "high"
    /\ \E k \in 1..Len(whale_opportunities) :
          /\ whale_opportunities[k].days_since_trade = 999
          /\ whale_opportunities[k].freshness = "old"

(***************************************************************************)
(* Properties of the cluster score.                                        *)
(***************************************************************************)
\* the three tier tables of the claim
C12_TotalValue(v) ==
    IF v >= 5000000 THEN 25
    ELSE IF v >= 2000000 THEN 20
    ELSE IF v >= 1000000 THEN 15
    ELSE IF v >= 500000 THEN 10
    ELSE 0

C12_ClusterEffect(n) == IF n >= 3 THEN 25 ELSE IF n >= 2 THEN 20 ELSE 10

C12_FreshnessBonus(d) ==
    IF d <= 7 THEN 25
    ELSE IF d <= 14 THEN 20
    ELSE IF d <= 21 THEN 15
    ELSE IF d <= 30 THEN 10
    ELSE 5

\* the purchases argument of the call made directly
ScorePurchases ==
    [i \in 1..Len(score_args.titles) |-> [title |-> score_args.titles[i]]]

\* C12: the cluster score is the total-value tier plus the cluster-effect
\* tier plus the insider quality plus the freshness bonus, clamped to 0..100.
C12_ClusterScoreIsSum ==
    score_result.kind = "cluster" =>
        score_result.value =
            Max2(0, Min2(100,
                C12_TotalValue(score_args.total_value)
                + C12_ClusterEffect(score_args.insider_count)
                + MaxInsiderScore(ScorePurchases)
                + C12_FreshnessBonus(score_args.days_since)))

\* three insiders totalling 3.7M, best title CFO, latest 5 days ago: 90
C12_Witness ==
    /\ score_result.kind = "cluster"
    /\ score_args.total_value = 3700000
    /\ score_args.insider_count = 3
    /\ score_args.titles = <<"CFO", "Dir">>
    /\ score_args.days_since = 5
    /\ score_result.value = 90

\* the per-title value of the claim's rule list, first match winning
C13_TitleValue(title) ==
    IF \E w \in {"ceo", "chief executive", "founder", "co-founder"} :
          Contains(Lower(title), w)
    THEN 25
    ELSE IF \E w \in {"cfo", "chief financial"} : Contains(Lower(title), w)
    THEN 20
    ELSE IF Contains(Lower(title), "10%") THEN 20
    ELSE IF \E w \in {"president", "chairman"} : Contains(Lower(title), w)
    THEN 15
    ELSE 8

\* the insider-quality component of the score just computed: the score less
\* its three other components (the clamp at 100 never binds)
InsiderQualityOfResult ==
    score_result.value
        - ValueScore(score_args.total_value)
        - ClusterEffectScore(score_args.insider_count)
        - FreshnessBonus(score_args.days_since)

\* C13: the insider-quality component is the maximum over the member titles
\* of the value given by the ordered rules: CEO/chief executive or
\* founder/co-founder 25, then CFO/chief financial 20, then 10% 20, then
\* president/chairman 15, else 8; a title with a founder keyword and a CFO
\* keyword takes 25.
C13_InsiderQualityRuleOrder ==
    (score_result.kind = "cluster" /\ Len(score_args.titles) > 0) =>
        InsiderQualityOfResult =
            MaxSeq([i \in 1..Len(score_args.titles) |->
                        C13_TitleValue(score_args.titles[i])])

(***************************************************************************)
(* Properties of the clusters.                                             *)
(***************************************************************************)
\* detect_cluster_buying has returned
Clustered == pc \in {"save_opportunities", "done"}

\* the admitted filings of a ticker
AdmittedOf(ticker) == SelectSeq(df_filtered, LAMBDA r : r.ticker = ticker)

C14_Freshness(days) ==
    IF days <= 7 THEN "fresh" ELSE IF days <= 21 THEN "recent" ELSE "old"

\* C14: there is exactly one cluster per distinct ticker of the admitted
\* filings; its total_value is the sum of their absolute values, its
\* insider_count the number of distinct insider names, its days_since_latest
\* the least days_since_trade, and its freshness fresh up to 7 days, recent up
\* to 21, else old.
C14_ClusterAggregates ==
    Clustered =>
        /\ {clusters[k].ticker : k \in 1..Len(clusters)}
              = {df_filtered[i].ticker : i \in 1..Len(df_filtered)}
        /\ \A j, k \in 1..Len(clusters) :
              clusters[j].ticker = clusters[k].ticker => j = k
        /\ \A k \in 1..Len(clusters) :
              LET c == clusters[k]
                  rows == AdmittedOf(c.ticker)
                  days == [i \in 1..Len(rows) |-> rows[i].days_since_trade]
              IN  /\ c.total_value =
                        SumSeq([i \in 1..Len(rows) |->
                                    Abs(rows[i].transaction_value)])
                  /\ c.insider_count =
                        Cardinality({rows[i].insider_name : i \in 1..Len(rows)})
                  /\ c.days_since_latest = MinSeq(days)
                  /\ c.freshness = C14_Freshness(MinSeq(days))

\* a cluster of two insiders, one filing 22 days old and one 21 days old with
\* a negative reported value: recent, total 2.5M
C14_Witness ==
    /\ pc = "done"
    /\ \E k \in 1..Len(clusters) :
          /\ clusters[k].insider_count = 2
          /\ clusters[k].total_value = 2500000
          /\ clusters[k].days_since_latest = 21
          /\ clusters[k].freshness = "recent"
          /\ \E i \in 1..Len(df_filtered) :
                /\ df_filtered[i].ticker = clusters[k].ticker
                /\ df_filtered[i].days_since_trade = 22

(***************************************************************************)
(* Properties of the order of the detection results.                       *)
(***************************************************************************)
\* the whale records in discovery order: one per whale filing, in df order
WhalesAsDiscovered ==
    LET found == SelectSeq(df, IsWhaleRow)
    IN  [k \in 1..Len(found) |-> WhaleOpp(found[k])]

\* the position in df_filtered of the first filing of a ticker
FirstSeen(ticker) ==
    CHOOSE i \in 1..Len(df_filtered) :
        /\ df_filtered[i].ticker = ticker
        /\ \A j \in 1..(i - 1) : df_filtered[j].ticker # ticker

\* C15: the whale list is in descending whale_score and the cluster list in
\* descending score; whales of equal score are in the order of their filings
\* in the input, clusters of equal score in the order in which their tickers
\* were first met.
C15_SortedStable ==
    /\ pc \notin {"scrape", "detect_whale_trades", "exit_1", "KeyError"} =>
          /\ Len(whale_opportunities) = Len(WhalesAsDiscovered)
          /\ \A i, j \in 1..Len(whale_opportunities) :
                i < j => whale_opportunities[i].whale_score
                            >= whale_opportunities[j].whale_score
          /\ \A sc \in {whale_opportunities[k].whale_score :
                            k \in 1..Len(whale_opportunities)} :
                SelectSeq(whale_opportunities, LAMBDA w : w.whale_score = sc)
                  = SelectSeq(WhalesAsDiscovered, LAMBDA w : w.whale_score = sc)
    /\ Clustered =>
          \A i, j \in 1..Len(clusters) :
              i < j =>
                 /\ clusters[i].score >= clusters[j].score
                 /\ clusters[i].score = clusters[j].score
                       => FirstSeen(clusters[i].ticker)
                             < FirstSeen(clusters[j].ticker)

\* a run whose input met the CD whale before an equally scored AB whale and
\* the CD cluster filing before an equally scored AB one
C15_Witness ==
    /\ pc = "done"
    /\ Len(df) = 4
    /\ df[1].ticker = "CD" /\ df[1].transaction_value = 120000000
    /\ df[2].ticker = "CD" /\ df[2].transaction_value = 500000
    /\ df[3].ticker = "AB" /\ df[3].transaction_value = 120000000
    /\ df[3].title = df[1].title
    /\ df[4].ticker = "AB" /\ df[4].transaction_value = 500000
    /\ df[4].title = df[2].title
    /\ Len(whale_opportunities) = 2
    /\ whale_opportunities[1].ticker = "CD"
    /\ whale_opportunities[2].ticker = "AB"
    /\ whale_opportunities[1].whale_score = whale_opportunities[2].whale_score
    /\ Len(clusters) = 2
    /\ clusters[1].ticker = "CD"
    /\ clusters[2].ticker = "AB"
    /\ clusters[1].score = clusters[2].score

(***************************************************************************)
(* Properties of the report.                                               *)
(***************************************************************************)
\* the list is in descending momentum_pct
ByMomentumDescending(bucket) ==
    \A i, j \in 1..Len(bucket) :
        i < j => bucket[i].momentum_pct >= bucket[j].momentum_pct

\* C16: in the report every stage bucket (early, confirmed, late) and every
\* type bucket (whale, top cluster) is in descending momentum_pct.
C16_BucketsByMomentum ==
    report.kind = "report" =>
        /\ ByMomentumDescending(report.stage_buckets.early_opportunities)
        /\ ByMomentumDescending(report.stage_buckets.confirmed_opportunities)
        /\ ByMomentumDescending(report.stage_buckets.late_opportunities)
        /\ ByMomentumDescending(report.type_buckets.whale_opportunities)
        /\ ByMomentumDescending(report.type_buckets.top_cluster_opportunities)

\* every record of the list satisfies P and comes from the enriched set
BucketOf(bucket, P(_)) ==
    \A k \in 1..Len(bucket) :
        /\ P(bucket[k])
        /\ \E j \in 1..Len(all_enriched) : all_enriched[j] = bucket[k]

\* the score the combined list ranks a record by
C17_RawScore(e) == IF e.type = "cluster" THEN e.score ELSE e.whale_score

\* C17: the buckets hold at most 10 early, 10 confirmed, 5 late, 5 whale, 10
\* cluster and 15 combined records, each of its own stage or type; the
\* combined list is in descending cluster score / whale score; and the
\* summary has early + confirmed + late = total = whales + clusters.
C17_BoundedBucketsAndCounts ==
    report.kind = "report" =>
        /\ Len(report.stage_buckets.early_opportunities) <= 10
        /\ Len(report.stage_buckets.confirmed_opportunities) <= 10
        /\ Len(report.stage_buckets.late_opportunities) <= 5
        /\ Len(report.type_buckets.whale_opportunities) <= 5
        /\ Len(report.type_buckets.top_cluster_opportunities) <= 10
        /\ Len(report.top_research_targets) <= 15
        /\ BucketOf(report.stage_buckets.early_opportunities,
                    LAMBDA e : e.stage \in {"early_positive", "early_negative"})
        /\ BucketOf(report.stage_buckets.confirmed_opportunities,
                    LAMBDA e : e.stage = "confirmed")
        /\ BucketOf(report.stage_buckets.late_opportunities,
                    LAMBDA e : e.stage = "late")
        /\ BucketOf(report.type_buckets.whale_opportunities,
                    LAMBDA e : e.type = "whale")
        /\ BucketOf(report.type_buckets.top_cluster_opportunities,
                    LAMBDA e : e.type = "cluster")
        /\ BucketOf(report.top_research_targets, LAMBDA e : TRUE)
        /\ \A i, j \in 1..Len(report.top_research_targets) :
              i < j => C17_RawScore(report.top_research_targets[i])
                          >= C17_RawScore(report.top_research_targets[j])
        /\ report.summary.early_stage + report.summary.confirmed_stage
              + report.summary.late_stage = report.summary.total_opportunities
        /\ report.summary.whale_opportunities
              + report.summary.cluster_opportunities
              = report.summary.total_opportunities
        /\ report.summary.total_opportunities = Len(all_enriched)

\* a report of 17 enriched records, 6 of them late whales and 11 early
\* clusters: every bucket is cut to its limit
C17_Witness ==
    /\ report.kind = "report"
    /\ report.summary.total_opportunities = 17
    /\ report.summary.late_stage = 6
    /\ report.summary.early_stage = 11
    /\ Len(report.stage_buckets.late_opportunities) = 5
    /\ Len(report.stage_buckets.early_opportunities) = 10
    /\ Len(report.type_buckets.whale_opportunities) = 5
    /\ Len(report.type_buckets.top_cluster_opportunities) = 10
    /\ Len(report.top_research_targets) = 15

(***************************************************************************)
(* Properties of the pipeline.                                             *)
(***************************************************************************)
\* the scrape returned a table, and the run found no whale and no cluster
\* opportunity in it
NothingFound ==
    /\ pc \in {"KeyError", "done"}
    /\ whale_opportunities = <<>>
    /\ cluster_opportunities = <<>>

\* a report of an empty enriched set
EmptyValidReport ==
    /\ report.kind = "report"
    /\ report.summary = [total_opportunities |-> 0, whale_opportunities |-> 0,
                         cluster_opportunities |-> 0, early_stage |-> 0,
                         confirmed_stage |-> 0, late_stage |-> 0,
                         avg_momentum |-> 0]
    /\ ReportRecords = {}

\* C18: a pipeline run whose scrape holds no filing, or none that passes a
\* threshold, ends normally with an empty report: all counts 0, avg_momentum
\* 0, all buckets empty.
C18_EmptyRunGivesEmptyReport ==
    (PipelineEnded /\ NothingFound) => (apc = "done" /\ EmptyValidReport)

\* load_opportunities has returned the two lists the research step works on
Loaded ==
    apc \in {"enrich_with_market_data", "analyze_opportunities",
             "generate_research_report", "print_research_summary", "done",
             "KeyError"}

\* C20: after any sequence of detection runs, the cluster and whale
\* opportunities the research step consumes are exactly those the most
\* recent detection run computed, also when that run found no clusters or no
\* whales.
C20_LatestRunSupersedes ==
    Loaded =>
        /\ cluster_data = cluster_opportunities
        /\ whale_data = whale_opportunities

(***************************************************************************)
(* Properties of the market lookup.                                        *)
(***************************************************************************)
\* the opportunity can be given a momentum
Enrichable(opp) == HasCurrentPrice(opp.ticker) /\ ReferencePrice(opp) > 0

C21_Symbols(kind) ==
    IF kind = "percent" THEN {"$", ",", " ", "%"} ELSE {"$", ",", " "}

\* the cell text without those symbols
C21_Stripped(text, kind) == RemoveChars(clean_text(text), C21_Symbols(kind))

\* the stripped text without its leading sign
C21_Body(text, kind) ==
    LET t == C21_Stripped(text, kind)
    IN  IF StartsWith(t, "-") \/ StartsWith(t, "+")
        THEN SubSeq(t, 2, Len(t))
        ELSE t

C21_IsMissing(text) ==
    clean_text(text) = "" \/ LowerOf(clean_text(text)) \in {"n/a", "new"}

\* C21: cleaning a numeric or percent cell gives a number for every text:
\* 0 for an empty text and for n/a and new in any case; otherwise currency
\* signs, thousands separators, whitespace (and % for a percentage) and a
\* leading + are stripped, a leading - makes the result negative, and a text
\* that still holds anything but a number gives 0.
C21_TolerantCleaning ==
    score_result.kind \in {"numeric", "percent"} =>
        LET text == score_args.text
            kind == score_result.kind
            body == C21_Body(text, kind)
        IN  /\ score_result.value \in Int
            /\ C21_IsMissing(text) => score_result.value = 0
            /\ (~C21_IsMissing(text) /\ StartsWith(C21_Stripped(text, kind), "-"))
                  => score_result.value <= 0
            /\ (~C21_IsMissing(text) /\ IsUnsignedNumber(body))
                  => score_result.value =
                        IF StartsWith(C21_Stripped(text, kind), "-")
                        THEN 0 - UnsignedValue(body)
                        ELSE UnsignedValue(body)
            /\ ~(CharsOf(body) \subseteq Digits \cup {".", "+", "-"})
                  => score_result.value = 0

(***************************************************************************)
(* C22: under any interleaving of POST /api/run-pipeline requests, at most *)
(* one execution of run_full_pipeline is in progress at a time: a request  *)
(* that arrives while a run has been started and has not finished is       *)
(* rejected and starts no second run.  An execution is counted from its    *)
(* first statement to the end of its finally clause.                       *)
(***************************************************************************)
C22_AtMostOneRun ==
    Cardinality({r \in Requests : Executing(r)}) <= 1

(***************************************************************************)
(* C23: the is_scraping flag that get_system_status reports tracks the     *)
(* pipeline activity: it is true whenever some execution of                *)
(* run_full_pipeline is between its start and its end, so that the system  *)
(* never reports idle while a run still executes, and once every run has   *)
(* ended, on whichever exit path, the flag is false again.                 *)
(***************************************************************************)
C23_FlagTracksActivity ==
    /\ (\E r \in Requests : Executing(r)) => is_scraping
    /\ (\A r \in Requests : thread[r].at \in {"none", "ended"})
          => ~is_scraping

(***************************************************************************)
(* C24: in every record calculate_momentum_and_stage returns, the recorded *)
(* stage agrees with the recorded momentum_pct (rounded to two decimals,   *)
(* here in hundredths of a percent) under the stage thresholds: no record  *)
(* has momentum_pct <= 15 with stage late, momentum_pct <= 5 with stage    *)
(* confirmed, or momentum_pct >= 0 with stage early_negative.              *)
(***************************************************************************)
C24_StageAgreesWithRecordedMomentum ==
    \A k \in 1..Len(all_enriched) :
        LET o == all_enriched[k]
        IN  /\ ~(o.momentum_pct <= 100 * confirmed_max /\ o.stage = "late")
            /\ ~(o.momentum_pct <= 100 * early_max /\ o.stage = "confirmed")
            /\ ~(o.momentum_pct >= 0 /\ o.stage = "early_negative")

\* the whale scores the two high-confidence contributions allow
C25_HighScores == {75, 80, 85, 90, 95, 100}

(***************************************************************************)
(* C25: every whale detect_whale_trades emits has confidence 'high': the   *)
(* allowlist of the whale mask holds exactly the keywords of the two       *)
(* high-confidence rules, so the 'medium' branch (15 points) is never      *)
(* taken, every whale_score is one of 75, 80, 85, 90, 95, 100 and it is    *)
(* above the cluster acceptance floor of 50.                               *)
(***************************************************************************)
C25_EveryWhaleHighConfidence ==
    \A k \in 1..Len(whale_opportunities) :
        LET w == whale_opportunities[k]
        IN  /\ w.confidence = "high"
            /\ w.whale_score \in C25_HighScores
            /\ w.whale_score > 50
            /\ w.whale_score
                 # Min2(40 + WhaleFreshnessScore(w.days_since_trade) + 15, 100)

\* a finished run that read a director's purchase of whale size, which is
\* not a whale, and emitted the lowest-scored whale: a 10% owner, 22 days old
C25_Witness ==
    /\ pc = "done"
    /\ Len(whale_opportunities) = 1
    /\ whale_opportunities[1].title = "10%"
    /\ whale_opportunities[1].days_since_trade > 21
    /\ whale_opportunities[1].whale_score = 75
    /\ \E i \in 1..Len(df) :
          /\ df[i].title = "Dir"
          /\ Abs(df[i].transaction_value) >= whale_threshold
          /\ Contains(df[i].transaction_type, "P - Purchase")

====
